---- MODULE Spec2Model ----
(***************************************************************************)
(* Recording state machine of the bird watcher: App (detection loop,       *)
(* start/stop of a recording, view switches) and Recorder (MediaRecorder   *)
(* wrapper), as one state machine over the handlers the event loop runs.   *)
(*                                                                         *)
(* Time: the code reads Date.now() only in differences and arms timers     *)
(* with durations, so the model keeps the differences: sinceBirdSeen is    *)
(* Date.now() - lastBirdSeenTime and every timer carries the time left.    *)
(* Advance lets TimeStep milliseconds pass, and a timer that is due runs    *)
(* before the next TimeStep passes.  A handler runs to its next await in    *)
(* one step; promise continuations run in the step that settles the        *)
(* promise (microtasks).                                                   *)
(***************************************************************************)
EXTENDS Integers, Sequences, FiniteSets, TLC

\* ------------------------------------------------------------ constants --
NO_BIRD_GRACE_PERIOD == 10000
COOLDOWN_DURATION == 2000
\* CONFIG.NMS_IOU_THRESHOLD (0.5), in hundredths
NMS_IOU_THRESHOLD == 50
\* CONFIG.DETECTION_TILE_GRID and CONFIG.DETECTION_TILE_OVERLAP (0.25), the
\* overlap in hundredths
DETECTION_TILE_GRID == 2
\* CONFIG.BIRD_CONFIDENCE_THRESHOLD (0.5), in hundredths
BIRD_CONFIDENCE_THRESHOLD == 50
\* CONFIG.MOTION_THRESHOLD, CONFIG.MOTION_PIXEL_PERCENT (0.5 percent, kept in
\* tenths of a percent) and CONFIG.MOTION_SAMPLE_SIZE
MOTION_THRESHOLD == 30
MOTION_PIXEL_PERCENT == 5
MOTION_SAMPLE_SIZE == 100
\* CONFIG.RECORDING_DURATION in ms, the default of Recorder.duration
RECORDING_DURATION == 10000
DETECTION_TILE_OVERLAP == 25
\* CONFIG.CAMERA_CONSTRAINTS.video: the ideal width and height of a frame
CAMERA_WIDTH == 1280
CAMERA_HEIGHT == 720

\* --------------------------------------------------------------- bounds --
\* detectionLoop invocations that may be in flight at once
MaxLoops == 2
\* Recorder objects ever constructed (init plus re-entries of the camera view)
MaxRecorders == 2
\* capture sessions (MediaRecorder instances) ever started
MaxSessions == 2
\* detections in a list passed to nms
MaxDets == 3
\* bbox x and y run over 0..MaxCoord, bbox width and height over 0..MaxSize
MaxCoord == 2
MaxSize == 2
\* prediction scores run over the levels 1..MaxScore
MaxScore == 2
\* besides the camera's frame, frames of 1..MaxFrame pixels a side are tiled
MaxFrame == 6
\* tileGrid runs up to MaxGrid
MaxGrid == 3
\* predictions in one answer of the scorer
MaxPreds == 2
\* calls of BirdDetector.load
MaxLoadCalls == 3
\* the samples of the motion detector are up to MaxSide pixels wide and high
MaxSide == 2
\* MediaRecorders a Recorder looked at alone may create
MaxTakes == 3

NULL == -1

\* the grain of time: half a grace period
TimeStep == NO_BIRD_GRACE_PERIOD \div 2

Loops == 1..MaxLoops
Recorders == 1..MaxRecorders
Sessions == 1..MaxSessions

Min(a, b) == IF a < b THEN a ELSE b
Max(a, b) == IF a > b THEN a ELSE b

VARIABLES
  state,             \* App.state
  stopReason,        \* App.stopReason: "null", "manual", "auto"
  sinceBirdSeen,     \* Date.now() - App.lastBirdSeenTime, NULL when that is null
  noMoreBirdTimeout, \* App.noMoreBirdTimeout: [st: "null"|"pending"|"fired", left]
  cooldownTimers,    \* pending cooldown setTimeout calls: time left of each
  detectionInterval, \* App.detectionInterval is non-null
  detectRunning,     \* App._detectRunning
  stream,            \* App.stream is non-null
  view,              \* UI.currentView
  camPending,        \* showCamera calls awaiting initCamera()
  recorder,          \* App.recorder: index of the current Recorder
  nRecorders,        \* Recorder objects constructed so far
  recs,              \* the Recorder objects
  nSessions,         \* MediaRecorder instances started so far
  sessions,          \* the MediaRecorder instances and their promises
  loops,             \* detectionLoop invocations
  birdPresent,       \* a target object is in front of the camera
  toast,             \* what the last UI.showError call reported, "none" before any
  mime,              \* what Recorder.getSupportedMimeType() returns: "mp4" or "webm"
  nmsIn,             \* BirdDetector.nms: the detections passed and this.nmsIouThreshold
  nmsOut,            \* BirdDetector.nms: what the calls returned
  iouIn,             \* BirdDetector.iou: the two bboxes passed
  iouOut,            \* BirdDetector.iou: what the calls returned
  tileIn,            \* the tiling of detect: detectW, detectH, grid, overlap
  tileOut,           \* the tiling of detect: tileW, tileH, stepX, stepY, (sx, sy)
  model,             \* BirdDetector.model is non-null
  isLoading,         \* BirdDetector.isLoading
  loads,             \* the calls of BirdDetector.load: where each one is
  cocoStarted,       \* cocoSsd.load() calls made so far
  frame,             \* a detect call's source, softwareZoom and the tile settings
  call,              \* the detect call: where it is, its locals, what it gave
  scans,             \* the model.detect() invocations of the detect call
  motionIn,          \* MotionDetector.detect: the two frames and the settings
  motionOut,         \* MotionDetector.detect: what the call returned
  isRecording,       \* Recorder alone: this.isRecording
  mediaRecorder,     \* Recorder alone: the take this.mediaRecorder records, 0 is null
  takes              \* Recorder alone: the MediaRecorders created, with their timers

vars == << state, stopReason, sinceBirdSeen, noMoreBirdTimeout, cooldownTimers,
           detectionInterval, detectRunning, stream, view, camPending,
           recorder, nRecorders, recs, nSessions, sessions, loops, birdPresent,
           toast, mime, nmsIn, nmsOut, iouIn, iouOut, tileIn, tileOut,
           model, isLoading, loads, cocoStarted, frame, call, scans,
           motionIn, motionOut, isRecording, mediaRecorder, takes >>

\* the App and Recorder part of the state, and the BirdDetector part
machineVars == << state, stopReason, sinceBirdSeen, noMoreBirdTimeout, cooldownTimers,
                  detectionInterval, detectRunning, stream, view, camPending,
                  recorder, nRecorders, recs, nSessions, sessions, loops, birdPresent,
                  toast, mime >>
nmsVars == << nmsIn, nmsOut >>
iouVars == << iouIn, iouOut >>
tileVars == << tileIn, tileOut >>
loadVars == << model, isLoading, loads, cocoStarted >>
detectVars == << frame, call, scans >>
motionVars == << motionIn, motionOut >>
takeVars == << isRecording, mediaRecorder, takes >>
detectorVars == << nmsVars, iouVars, tileVars, loadVars, detectVars, motionVars, takeVars >>

appVars == << state, stopReason, sinceBirdSeen, noMoreBirdTimeout, cooldownTimers >>
schedVars == << detectionInterval, detectRunning >>
camVars == << stream, view, camPending, recorder, nRecorders >>

States == {"idle", "detecting", "recording", "stopping", "cooldown", "paused"}

NoTimer == [st |-> "null", left |-> 0]
FreeLoop == [pc |-> "free", sess |-> 0]
NoRecorder == [isRecording |-> FALSE, chunks |-> FALSE, cur |-> 0, ended |-> FALSE]
NoSession == [rec |-> 0, mr |-> "unused", stop |-> "none", saves |-> 0, errors |-> 0]


\* -------------------------------------------------------- BirdDetector --
\* Pixel coordinates and sizes are integers here, so the arithmetic of iou
\* is exact; a JS number that iou returns is kept as the fraction num/den.

\* bbox arrays [x, y, width, height]
Boxes == {<< x, y, w, h >> : x \in 0..MaxCoord, y \in 0..MaxCoord,
                             w \in 0..MaxSize, h \in 0..MaxSize}

\* (mutant of iou) the union is taken as the sum of the two areas
iouSumOfAreas(a, b) ==
  LET ax1 == a[1]  ay1 == a[2]  ax2 == a[1] + a[3]  ay2 == a[2] + a[4]
      bx1 == b[1]  by1 == b[2]  bx2 == b[1] + b[3]  by2 == b[2] + b[4]
      ix1 == Max(ax1, bx1)  iy1 == Max(ay1, by1)
      ix2 == Min(ax2, bx2)  iy2 == Min(ay2, by2)
      intersection == Max(0, ix2 - ix1) * Max(0, iy2 - iy1)
      union == a[3] * a[4] + b[3] * b[4]
  IN IF union > 0 THEN [num |-> intersection, den |-> union]
     ELSE [num |-> 0, den |-> 1]

\* (mutant of iou) boxes are taken to include their far edge
iouInclusiveEdges(a, b) ==
  LET ax1 == a[1]  ay1 == a[2]  ax2 == a[1] + a[3]  ay2 == a[2] + a[4]
      bx1 == b[1]  by1 == b[2]  bx2 == b[1] + b[3]  by2 == b[2] + b[4]
      ix1 == Max(ax1, bx1)  iy1 == Max(ay1, by1)
      ix2 == Min(ax2, bx2)  iy2 == Min(ay2, by2)
      intersection == Max(0, ix2 - ix1 + 1) * Max(0, iy2 - iy1 + 1)
      union == (a[3] + 1) * (a[4] + 1) + (b[3] + 1) * (b[4] + 1) - intersection
  IN IF union > 0 THEN [num |-> intersection, den |-> union]
     ELSE [num |-> 0, den |-> 1]

\* BirdDetector.iou(a, b): intersection over union, 0 when the union is not
\* positive
iou(a, b) ==
  LET ax1 == a[1]  ay1 == a[2]  ax2 == a[1] + a[3]  ay2 == a[2] + a[4]
      bx1 == b[1]  by1 == b[2]  bx2 == b[1] + b[3]  by2 == b[2] + b[4]
      ix1 == Max(ax1, bx1)  iy1 == Max(ay1, by1)
      ix2 == Min(ax2, bx2)  iy2 == Min(ay2, by2)
      intersection == Max(0, ix2 - ix1) * Max(0, iy2 - iy1)
      union == a[3] * a[4] + b[3] * b[4] - intersection
  IN IF union > 0 THEN [num |-> intersection, den |-> union]
     ELSE [num |-> 0, den |-> 1]

\* `q > t` for a fraction q and a threshold t in hundredths
Above(q, t) == q.num * 100 > t * q.den

\* detections.sort((a, b) => b.score - a.score) as the order of the indices
\* of D: Array.prototype.sort is stable, so an element goes behind those that
\* do not compare after it
RECURSIVE SortFrom(_, _, _)
SortFrom(D, i, ord) ==
  IF i > Len(D) THEN ord
  ELSE LET p == Cardinality({k \in 1..Len(ord) : D[ord[k]].score >= D[i].score})
       IN SortFrom(D, i + 1, SubSeq(ord, 1, p) \o << i >> \o SubSeq(ord, p + 1, Len(ord)))

\* (mutant of SortOrder) an unstable sort: equal scores come out reversed
RECURSIVE SortFromTiesReversed(_, _, _)
SortFromTiesReversed(D, i, ord) ==
  IF i > Len(D) THEN ord
  ELSE LET p == Cardinality({k \in 1..Len(ord) : D[ord[k]].score > D[i].score})
       IN SortFromTiesReversed(D, i + 1,
            SubSeq(ord, 1, p) \o << i >> \o SubSeq(ord, p + 1, Len(ord)))
SortOrderTiesReversed(D) == SortFromTiesReversed(D, 1, << >>)

\* (mutant of SortOrder) the comparator is a.score - b.score: ascending
RECURSIVE SortFromAscending(_, _, _)
SortFromAscending(D, i, ord) ==
  IF i > Len(D) THEN ord
  ELSE LET p == Cardinality({k \in 1..Len(ord) : D[ord[k]].score <= D[i].score})
       IN SortFromAscending(D, i + 1,
            SubSeq(ord, 1, p) \o << i >> \o SubSeq(ord, p + 1, Len(ord)))
SortOrderAscending(D) == SortFromAscending(D, 1, << >>)

SortOrder(D) == SortFrom(D, 1, << >>)

\* (mutant of NmsSweep) the inner loop starts at i + 2
RECURSIVE NmsSweepSkipsNext(_, _, _, _, _)
NmsSweepSkipsNext(detections, i, kept, suppressed, t) ==
  IF i > Len(detections) THEN kept
  ELSE IF i \in suppressed THEN NmsSweepSkipsNext(detections, i + 1, kept, suppressed, t)
  ELSE NmsSweepSkipsNext(detections, i + 1, Append(kept, i),
         suppressed \cup {j \in (i + 2)..Len(detections) :
                            /\ j \notin suppressed
                            /\ detections[i].class = detections[j].class
                            /\ Above(iou(detections[i].bbox, detections[j].bbox), t)}, t)

\* (mutant of NmsSweep) a suppressed candidate is not kept but still
\* suppresses those after it
RECURSIVE NmsSweepSuppressedSuppress(_, _, _, _, _)
NmsSweepSuppressedSuppress(detections, i, kept, suppressed, t) ==
  IF i > Len(detections) THEN kept
  ELSE NmsSweepSuppressedSuppress(detections, i + 1,
         IF i \in suppressed THEN kept ELSE Append(kept, i),
         suppressed \cup {j \in (i + 1)..Len(detections) :
                            /\ j \notin suppressed
                            /\ detections[i].class = detections[j].class
                            /\ Above(iou(detections[i].bbox, detections[j].bbox), t)}, t)

\* the loop of nms from index i on, over the sorted detections: the indices
\* pushed to kept; t is this.nmsIouThreshold
RECURSIVE NmsSweep(_, _, _, _, _)
NmsSweep(detections, i, kept, suppressed, t) ==
  IF i > Len(detections) THEN kept
  ELSE IF i \in suppressed THEN NmsSweep(detections, i + 1, kept, suppressed, t)
  ELSE NmsSweep(detections, i + 1, Append(kept, i),
         suppressed \cup {j \in (i + 1)..Len(detections) :
                            /\ j \notin suppressed
                            /\ detections[i].class = detections[j].class
                            /\ Above(iou(detections[i].bbox, detections[j].bbox), t)}, t)

\* BirdDetector.nms(detections), as the indices of D that are returned, in
\* the order in which they are returned
NmsKept(D, t) ==
  IF Len(D) = 0 THEN << >>
  ELSE LET ord == SortOrder(D)
           sorted == [k \in 1..Len(D) |-> D[ord[k]]]
           kept == NmsSweep(sorted, 1, << >>, {}, t)
       IN [k \in 1..Len(kept) |-> ord[kept[k]]]

\* BirdDetector.nms(detections): the list returned
nms(D, t) == LET kept == NmsKept(D, t) IN [k \in 1..Len(kept) |-> D[kept[k]]]

\* what the model passes to nms: detections of two classes with boxes of one
\* height and full width in one row, which overlap their neighbours
NmsBoxes == {b \in Boxes : b[2] = 0 /\ b[3] = MaxSize /\ b[4] = 1}
Detections == [class : {"bird", "cat"}, score : 1..MaxScore, bbox : NmsBoxes]
RECURSIVE ListsUpTo(_, _)
ListsUpTo(S, n) ==
  IF n = 0 THEN {<< >>}
  ELSE LET shorter == ListsUpTo(S, n - 1)
       IN shorter \cup {Append(D, d) : D \in {E \in shorter : Len(E) = n - 1}, d \in S}
Thresholds == {0, NMS_IOU_THRESHOLD \div 2, NMS_IOU_THRESHOLD}

\* ---- the tiling of detect, for a grid above 1 ----
\* The overlap is kept in hundredths; for the overlaps taken here (quarters)
\* the JS arithmetic is exact, so integer arithmetic gives what the code gets.
Overlaps == {0, DETECTION_TILE_OVERLAP, 50, 75}
Grids == 2..MaxGrid
FrameWidths == 1..MaxFrame \cup {CAMERA_WIDTH}
FrameHeights == 1..MaxFrame \cup {CAMERA_HEIGHT}

\* Math.ceil(n / d) for n >= 0, d > 0
CeilDiv(n, d) == (n + d - 1) \div d

\* (mutant of TileDim) the quotient is rounded down
TileDimFloor(detect, grid, overlap) ==
  (detect * 100) \div (grid * 100 - (grid - 1) * overlap)

\* tileW, tileH: Math.ceil(detectW / (grid - (grid - 1) * overlap))
TileDim(detect, grid, overlap) ==
  CeilDiv(detect * 100, grid * 100 - (grid - 1) * overlap)

\* stepX, stepY: Math.floor(tileW * (1 - overlap))
TileStep(tile, overlap) == (tile * (100 - overlap)) \div 100

\* (mutant of TileOrigin) the origin is not held back at the far edge
TileOriginUnclamped(k, step, detect, tile) == k * step

\* sx, sy of column or row k (from 0): Math.min(col * stepX, detectW - tileW)
TileOrigin(k, step, detect, tile) == Min(k * step, detect - tile)

\* the for loops over row and col: the origins (sx, sy) of the grid x grid
\* tiles in the order the loops visit them
TileOrigins(detectW, detectH, grid, overlap) ==
  LET tileW == TileDim(detectW, grid, overlap)
      tileH == TileDim(detectH, grid, overlap)
      stepX == TileStep(tileW, overlap)
      stepY == TileStep(tileH, overlap)
  IN [k \in 1..(grid * grid) |->
        LET row == (k - 1) \div grid
            col == (k - 1) % grid
        IN << TileOrigin(col, stepX, detectW, tileW),
              TileOrigin(row, stepY, detectH, tileH) >>]

\* ---- detect: the zoom crop, the scorer's answers, filter and remap ----
\* softwareZoom is kept in halves (2 is no zoom, 3 is 1.5, 4 is 2)
Zooms == {2, 3, 4}
\* the sources: the camera's frame, a 640x480 frame, and a frame of odd sides
Sources == {<< CAMERA_WIDTH, CAMERA_HEIGHT >>, << 640, 480 >>, << 5, 3 >>}
LoadCalls == 1..MaxLoadCalls

\* Math.round(n / d) for n >= 0, d > 0: halves go up
JsRound(n, d) == (2 * n + d) \div (2 * d)

\* (mutant of CropOffset) the crop starts at the middle of the frame
CropOffsetCentre(src, softwareZoom) ==
  IF softwareZoom > 2 THEN JsRound(src, 2) ELSE 0

\* cropW, cropH: Math.round(srcWidth / softwareZoom) when softwareZoom > 1
CropDim(src, softwareZoom) ==
  IF softwareZoom > 2 THEN JsRound(2 * src, softwareZoom) ELSE src

\* cropOffsetX, cropOffsetY: Math.round((srcWidth - cropW) / 2) when
\* softwareZoom > 1
CropOffset(src, softwareZoom) ==
  IF softwareZoom > 2 THEN JsRound(src - CropDim(src, softwareZoom), 2) ELSE 0

\* what the scorer may answer for an image of iw x ih pixels: predictions
\* with boxes inside the image, of a target class and of another, with
\* scores above, at and below the confidence threshold
Preds(iw, ih) ==
  { [class |-> "bird", score |-> BIRD_CONFIDENCE_THRESHOLD + 40,
     bbox |-> << 0, 0, Min(10, iw), Min(10, ih) >>],
    [class |-> "bird", score |-> BIRD_CONFIDENCE_THRESHOLD,
     bbox |-> << iw - 1, ih - 1, 1, 1 >>],
    [class |-> "cat", score |-> BIRD_CONFIDENCE_THRESHOLD + 40,
     bbox |-> << 0, 0, iw, ih >>],
    [class |-> "bird", score |-> BIRD_CONFIDENCE_THRESHOLD - 10,
     bbox |-> << 0, 0, Min(10, iw), Min(10, ih) >>] }

\* this.targetClasses.includes(pred.class) && pred.score >= this.confidenceThreshold
Passes(pred) == pred.class \in {"bird"} /\ pred.score >= BIRD_CONFIDENCE_THRESHOLD

\* (mutant of filterPredictions) the filtered list comes out reversed
RECURSIVE filterPredictionsReversed(_)
filterPredictionsReversed(predictions) ==
  IF predictions = << >> THEN << >>
  ELSE IF Passes(Head(predictions))
       THEN Append(filterPredictionsReversed(Tail(predictions)), Head(predictions))
       ELSE filterPredictionsReversed(Tail(predictions))

\* BirdDetector.filterPredictions: the predictions that pass, in their order
RECURSIVE filterPredictions(_)
filterPredictions(predictions) ==
  IF predictions = << >> THEN << >>
  ELSE IF Passes(Head(predictions))
       THEN << Head(predictions) >> \o filterPredictions(Tail(predictions))
       ELSE filterPredictions(Tail(predictions))

\* (mutant of Remap) the crop's offset is left out
RemapTileOnly(dets, sx, sy, cropOffsetX, cropOffsetY) ==
  [k \in 1..Len(dets) |->
     [dets[k] EXCEPT !.bbox = << dets[k].bbox[1] + sx, dets[k].bbox[2] + sy,
                                dets[k].bbox[3], dets[k].bbox[4] >>]]

\* bbox[0] + sx + cropOffsetX, bbox[1] + sy + cropOffsetY, width and height
\* as they are
Remap(dets, sx, sy, cropOffsetX, cropOffsetY) ==
  [k \in 1..Len(dets) |->
     [dets[k] EXCEPT !.bbox = << dets[k].bbox[1] + sx + cropOffsetX,
                                dets[k].bbox[2] + sy + cropOffsetY,
                                dets[k].bbox[3], dets[k].bbox[4] >>]]

\* the locals of a detect call on the frame f
cropW(f) == CropDim(f.srcWidth, f.softwareZoom)
cropH(f) == CropDim(f.srcHeight, f.softwareZoom)
cropOffsetX(f) == CropOffset(f.srcWidth, f.softwareZoom)
cropOffsetY(f) == CropOffset(f.srcHeight, f.softwareZoom)
tileW(f) == TileDim(cropW(f), f.tileGrid, f.tileOverlap)
tileH(f) == TileDim(cropH(f), f.tileGrid, f.tileOverlap)
\* the image handed to the scorer in invocation k: the working frame when
\* tileGrid <= 1, else tile k of it
Scan(f, k) ==
  IF f.tileGrid <= 1
  THEN [sx |-> 0, sy |-> 0, w |-> cropW(f), h |-> cropH(f), st |-> "pending"]
  ELSE LET o == TileOrigins(cropW(f), cropH(f), f.tileGrid, f.tileOverlap)[k]
       IN [sx |-> o[1], sy |-> o[2], w |-> tileW(f), h |-> tileH(f), st |-> "pending"]

DefaultFrame == [srcWidth |-> CAMERA_WIDTH, srcHeight |-> CAMERA_HEIGHT, softwareZoom |-> 2,
                 tileGrid |-> DETECTION_TILE_GRID, tileOverlap |-> DETECTION_TILE_OVERLAP]
NoCall == [pc |-> "none", predictions |-> << >>, allDetections |-> << >>,
           result |-> << >>, error |-> "none"]
\* ---- MotionDetector ----
\* An ImageData is its width, its height and its pixels, row after row, each
\* the red, green and blue value (alpha is not read).  NoFrame stands for a
\* null or undefined frame.
NoFrame == [width |-> 0, height |-> 0, data |-> << >>]
\* black, and two greys whose channels differ from black by 30 on average
\* and by a third more
Colours == {<< 0, 0, 0 >>, << MOTION_THRESHOLD, MOTION_THRESHOLD, MOTION_THRESHOLD >>,
            << MOTION_THRESHOLD + 1, MOTION_THRESHOLD, MOTION_THRESHOLD >>}
RECURSIVE PixelLists(_)
PixelLists(n) ==
  IF n = 0 THEN {<< >>}
  ELSE {Append(D, c) : D \in PixelLists(n - 1), c \in Colours}
Frames == UNION {{[width |-> w, height |-> h, data |-> d] : d \in PixelLists(w * h)} :
                   w \in 1..MaxSide, h \in 1..MaxSide}
Abs(x) == IF x < 0 THEN -x ELSE x

\* (mutant of Differs) a pixel at the threshold counts as changed
DiffersInclusive(c, p) ==
  Abs(c[1] - p[1]) + Abs(c[2] - p[2]) + Abs(c[3] - p[3]) >= 3 * MOTION_THRESHOLD

\* avgDiff > this.threshold for the pixels c and p: (rDiff + gDiff + bDiff) / 3
\* against the threshold, times 3
Differs(c, p) ==
  Abs(c[1] - p[1]) + Abs(c[2] - p[2]) + Abs(c[3] - p[3]) > 3 * MOTION_THRESHOLD

\* the for loop from pixel i (from 0) on: << changedPixels, sampledPixels >>
RECURSIVE MotionLoop(_, _, _, _, _, _)
MotionLoop(current, previous, step, i, changedPixels, sampledPixels) ==
  IF i >= Len(current) THEN << changedPixels, sampledPixels >>
  ELSE MotionLoop(current, previous, step, i + step,
                  IF Differs(current[i + 1], previous[i + 1])
                  THEN changedPixels + 1 ELSE changedPixels,
                  sampledPixels + 1)

NoMotion == [phase |-> "none", detected |-> FALSE, changedPercent |-> [num |-> 0, den |-> 1],
             changedPixels |-> 0, sampledPixels |-> NULL]

\* (mutant of MotionDetect) the widths and heights are not compared
MotionDetectAnyShape(currentFrame, previousFrame, pixelPercent, sampleSize) ==
  IF currentFrame = NoFrame \/ previousFrame = NoFrame
  THEN [NoMotion EXCEPT !.phase = "done"]
  ELSE LET current == currentFrame.data
           previous == previousFrame.data
           totalPixels == Len(current)
           step == Max(1, totalPixels \div sampleSize)
           counts == MotionLoop(current, previous, step, 0, 0, 0)
       IN [phase |-> "done",
           detected |-> counts[1] * 100 * 10 >= pixelPercent * counts[2],
           changedPercent |-> [num |-> counts[1] * 100, den |-> counts[2]],
           changedPixels |-> counts[1],
           sampledPixels |-> counts[2]]

\* MotionDetector.detect(currentFrame, previousFrame).  changedPercent is kept
\* as the fraction it is computed from; pixelPercent is in tenths of a percent
MotionDetect(currentFrame, previousFrame, pixelPercent, sampleSize) ==
  IF currentFrame = NoFrame \/ previousFrame = NoFrame
  THEN [NoMotion EXCEPT !.phase = "done"]
  ELSE IF currentFrame.width # previousFrame.width \/ currentFrame.height # previousFrame.height
  THEN [NoMotion EXCEPT !.phase = "done"]
  ELSE LET current == currentFrame.data
           previous == previousFrame.data
           totalPixels == Len(current)
           step == Max(1, totalPixels \div sampleSize)
           counts == MotionLoop(current, previous, step, 0, 0, 0)
       IN [phase |-> "done",
           detected |-> counts[1] * 100 * 10 >= pixelPercent * counts[2],
           changedPercent |-> [num |-> counts[1] * 100, den |-> counts[2]],
           changedPixels |-> counts[1],
           sampledPixels |-> counts[2]]

NoTiles == [phase |-> "none", tileW |-> 0, tileH |-> 0, stepX |-> 0, stepY |-> 0,
            origins |-> << >>]
NoNms == [phase |-> "none", kept |-> << >>, from |-> << >>, again |-> << >>]
NoIou == [phase |-> "none", ab |-> [num |-> 0, den |-> 1], ba |-> [num |-> 0, den |-> 1],
          aa |-> [num |-> 0, den |-> 1]]
ZeroBox == << 0, 0, 0, 0 >>

\* no call of nms, no call of iou, no tiling is being looked at
NmsIdle ==
  /\ nmsIn = [detections |-> << >>, nmsIouThreshold |-> NMS_IOU_THRESHOLD]
  /\ nmsOut = NoNms
IouIdle ==
  /\ iouIn = << ZeroBox, ZeroBox >>
  /\ iouOut = NoIou
TileIdle ==
  /\ tileIn = [detectW |-> CAMERA_WIDTH, detectH |-> CAMERA_HEIGHT,
               grid |-> DETECTION_TILE_GRID, overlap |-> DETECTION_TILE_OVERLAP]
  /\ tileOut = NoTiles

\* load() has completed once (App.init awaits it), no other call was made
LoadDone ==
  /\ model = TRUE
  /\ isLoading = FALSE
  /\ loads = [c \in LoadCalls |-> IF c = 1 THEN "returned" ELSE "none"]
  /\ cocoStarted = 1
\* the camera's frame and the configured settings, no detect call looked at
DetectIdle ==
  /\ frame = DefaultFrame
  /\ call = NoCall
  /\ scans = << >>

\* no call of the motion detector is being looked at
MotionIdle ==
  /\ motionIn = [currentFrame |-> NoFrame, previousFrame |-> NoFrame,
                 pixelPercent |-> MOTION_PIXEL_PERCENT, sampleSize |-> MOTION_SAMPLE_SIZE]
  /\ motionOut = NoMotion

\* a Recorder looked at alone: a take is a MediaRecorder start() created, how
\* long ago (capped at the duration), and the auto-stop timer set with it
Takes == 1..MaxTakes
NoTake == [mr |-> "unused", indefinite |-> FALSE, age |-> 0, timer |-> "none", left |-> 0,
           by |-> "none", timerOf |-> 0]
\* no Recorder is being looked at alone
TakeIdle ==
  /\ isRecording = FALSE
  /\ mediaRecorder = 0
  /\ takes = [k \in Takes |-> NoTake]

BirdDetectorIdle == NmsIdle /\ IouIdle /\ TileIdle /\ LoadDone /\ DetectIdle

DetectorIdle == BirdDetectorIdle /\ MotionIdle /\ TakeIdle

\* App constructor, then App.init() completed: camera and recorder set up,
\* model loaded, detection started
Init ==
  /\ DetectorIdle
  /\ state = "idle"
  /\ stopReason = "null"
  /\ sinceBirdSeen = NULL
  /\ noMoreBirdTimeout = NoTimer
  /\ cooldownTimers = << >>
  /\ detectionInterval = TRUE
  /\ detectRunning = FALSE
  /\ stream = TRUE
  /\ view = "camera"
  /\ camPending = 0
  /\ recorder = 1
  /\ nRecorders = 1
  /\ recs = [r \in Recorders |-> NoRecorder]
  /\ nSessions = 0
  /\ sessions = [s \in Sessions |-> NoSession]
  /\ loops = [l \in Loops |-> FreeLoop]
  /\ birdPresent \in BOOLEAN
  /\ toast = "none"
  /\ mime \in {"mp4", "webm"}

\* ------------------------------------------------------------ Recorder --
\* Recorder.stop(): forwards to the MediaRecorder only while isRecording;
\* the MediaRecorder then delivers its last data and its stop event later.
\* `why` records who signalled the stop that reached the MediaRecorder.
RecorderStop(r, why) ==
  LET s == recs[r].cur IN
  IF recs[r].isRecording /\ s # 0 /\ sessions[s].mr = "recording"
  THEN [sessions EXCEPT ![s].mr = "stopping", ![s].stop = why]
  ELSE sessions

\* the detectionLoop/startRecording invocations awaiting the promise of s
Awaiting(s) == {l \in Loops : loops[l].pc = "blob" /\ loops[l].sess = s}

\* startRecording after `await this.recorder.start()` returned a blob, for
\* every invocation awaiting it: clear the no-bird timeout, then an empty blob
\* is reported and ends in idle, any other goes on to generateThumbnail.
\* `base` is sessions as the caller leaves it.  (Recorder resolves its promise
\* with blobs of size > 0 only.)
BlobResolved(s, base, blobSize) ==
  /\ noMoreBirdTimeout' = IF Awaiting(s) # {} THEN NoTimer ELSE noMoreBirdTimeout
  /\ toast' = IF blobSize = 0 /\ Awaiting(s) # {} THEN "empty" ELSE toast
  /\ IF blobSize = 0
     THEN /\ loops' = [l \in Loops |-> IF l \in Awaiting(s) THEN FreeLoop ELSE loops[l]]
          /\ state' = IF Awaiting(s) # {} THEN "idle" ELSE state
          /\ detectRunning' = IF Awaiting(s) # {} THEN FALSE ELSE detectRunning
          /\ sessions' = [base EXCEPT ![s].errors = @ + Cardinality(Awaiting(s))]
     ELSE /\ loops' = [l \in Loops |-> IF l \in Awaiting(s)
                                       THEN [pc |-> "thumb", sess |-> s] ELSE loops[l]]
          /\ sessions' = base
          /\ UNCHANGED << state, detectRunning >>
  /\ UNCHANGED << stopReason, sinceBirdSeen, cooldownTimers >>

\* (mutant of BlobRejected) the catch block forgets `this.state = 'idle'`
BlobRejectedKeepsState(s, base) ==
  /\ loops' = [l \in Loops |-> IF l \in Awaiting(s) THEN FreeLoop ELSE loops[l]]
  /\ noMoreBirdTimeout' = IF Awaiting(s) # {} THEN NoTimer ELSE noMoreBirdTimeout
  /\ detectRunning' = IF Awaiting(s) # {} THEN FALSE ELSE detectRunning
  /\ sessions' = [base EXCEPT ![s].errors = @ + Cardinality(Awaiting(s))]
  /\ toast' = IF Awaiting(s) # {} THEN "save" ELSE toast
  /\ UNCHANGED << state, stopReason, sinceBirdSeen, cooldownTimers >>

\* startRecording's catch block for every invocation awaiting the rejected
\* promise of s; each detectionLoop then returns and releases the busy flag.
BlobRejected(s, base) ==
  /\ loops' = [l \in Loops |-> IF l \in Awaiting(s) THEN FreeLoop ELSE loops[l]]
  /\ IF Awaiting(s) # {}
     THEN /\ state' = "idle"
          /\ noMoreBirdTimeout' = NoTimer
          /\ detectRunning' = FALSE
     ELSE UNCHANGED << state, noMoreBirdTimeout, detectRunning >>
  /\ sessions' = [base EXCEPT ![s].errors = @ + Cardinality(Awaiting(s))]
  /\ toast' = IF Awaiting(s) # {} THEN "save" ELSE toast
  /\ UNCHANGED << stopReason, sinceBirdSeen, cooldownTimers >>

\* mediaRecorder.ondataavailable: a chunk of size > 0 is kept
DataAvailable(s) ==
  /\ sessions[s].mr \in {"recording", "stopping"}
  /\ \E size \in 0..1 :
       recs' = [recs EXCEPT ![sessions[s].rec].chunks = @ \/ size > 0]
  /\ UNCHANGED << appVars, schedVars, camVars, nSessions, sessions, loops, birdPresent,
                  toast, mime, detectorVars >>

\* mediaRecorder.onstop
OnStop(s) ==
  LET r == sessions[s].rec IN
  /\ sessions[s].mr = "stopping"
  /\ IF ~recs[r].chunks
     THEN /\ recs' = [recs EXCEPT ![r].isRecording = FALSE]
          /\ BlobRejected(s, [sessions EXCEPT ![s].mr = "rejected"])
     ELSE /\ recs' = [recs EXCEPT ![r].isRecording = FALSE, ![r].chunks = FALSE]
          /\ IF mime = "webm"
             THEN /\ sessions' = [sessions EXCEPT ![s].mr = "fixing"]
                  /\ UNCHANGED << appVars, detectRunning, loops, toast >>
             ELSE BlobResolved(s, [sessions EXCEPT ![s].mr = "resolved"], 1)
  /\ UNCHANGED << detectionInterval, camVars, nSessions, birdPresent, mime, detectorVars >>

\* onstop after `await fixWebmDuration(...)`: resolve(blob), fixed or not
FixDone(s) ==
  /\ sessions[s].mr = "fixing"
  /\ BlobResolved(s, [sessions EXCEPT ![s].mr = "resolved"], 1)
  /\ UNCHANGED << detectionInterval, camVars, recs, nSessions, birdPresent, mime, detectorVars >>

\* mediaRecorder.onerror
OnError(s) ==
  /\ sessions[s].mr = "recording"
  /\ recs' = [recs EXCEPT ![sessions[s].rec].isRecording = FALSE]
  /\ BlobRejected(s, [sessions EXCEPT ![s].mr = "rejected"])
  /\ UNCHANGED << detectionInterval, camVars, nSessions, birdPresent, mime, detectorVars >>

\* The tracks of the stream a MediaRecorder records were stopped (showReview):
\* the browser may end the recording by itself.
TracksEnded(s) ==
  /\ sessions[s].mr = "recording"
  /\ recs[sessions[s].rec].ended
  /\ sessions' = [sessions EXCEPT ![s].mr = "stopping", ![s].stop = "tracks"]
  /\ UNCHANGED << appVars, schedVars, camVars, recs, nSessions, loops, birdPresent,
                  toast, mime, detectorVars >>

\* ----------------------------------------------------------------- App --
\* the free slot a new detectionLoop invocation takes
FreeSlot == CHOOSE l \in Loops : loops[l].pc = "free" /\ \A k \in Loops : loops[k].pc = "free" => l <= k

\* detectionLoop() returned: `.finally(() => { this._detectRunning = false; })`
LoopReturns(l) ==
  /\ loops' = [loops EXCEPT ![l] = FreeLoop]
  /\ detectRunning' = FALSE

\* startDetection(): the busy flag is reset and a new interval is installed
StartDetection ==
  /\ detectRunning' = FALSE
  /\ detectionInterval' = TRUE

\* stopDetection()
StopDetection == detectionInterval' = FALSE

\* The setInterval callback of startDetection, with detectionLoop up to its
\* first await: the tick is skipped while the busy flag is set; in cooldown,
\* paused and stopping detectionLoop returns at once; otherwise
\* birdDetector.detect is called and the invocation waits for it.
IntervalTick ==
  /\ detectionInterval
  /\ IF detectRunning \/ state \in {"cooldown", "paused", "stopping"}
     THEN UNCHANGED << detectRunning, loops >>
     ELSE /\ \E l \in Loops : loops[l].pc = "free"
          /\ detectRunning' = TRUE
          /\ loops' = [loops EXCEPT ![FreeSlot] = [pc |-> "detect", sess |-> 0]]
  /\ UNCHANGED << appVars, detectionInterval, camVars, recs, nSessions, sessions,
                  birdPresent, toast, mime, detectorVars >>

\* (mutant of DetectionError) the busy flag is not released after an error
DetectionErrorHoldsFlag(l) ==
  /\ toast' = "detection"
  /\ loops' = [loops EXCEPT ![l] = FreeLoop]
  /\ UNCHANGED << appVars, detectRunning, recs, nSessions, sessions >>

\* detectionLoop's catch: the detection error is reported
DetectionError(l) ==
  /\ toast' = "detection"
  /\ LoopReturns(l)
  /\ UNCHANGED << appVars, recs, nSessions, sessions >>

\* (mutant of WhileRecording) a bird refreshes lastBirdSeenTime but the
\* pending stop timeout is not cleared
WhileRecordingKeepsTimeout(l, hasBird) ==
  /\ IF hasBird
     THEN /\ sinceBirdSeen' = 0
          /\ UNCHANGED noMoreBirdTimeout
     ELSE /\ noMoreBirdTimeout' =
               IF noMoreBirdTimeout.st = "null" /\ sinceBirdSeen # NULL
               THEN [st |-> "pending",
                     left |-> Max(0, NO_BIRD_GRACE_PERIOD - sinceBirdSeen)]
               ELSE noMoreBirdTimeout
          /\ UNCHANGED sinceBirdSeen
  /\ LoopReturns(l)
  /\ UNCHANGED << state, stopReason, cooldownTimers, recs, nSessions, sessions, toast >>

\* detectionLoop, `if (this.state === 'recording')`: a bird refreshes
\* lastBirdSeenTime and cancels the stop timeout; no bird arms the timeout
\* for what is left of the grace period, unless one is already stored
WhileRecording(l, hasBird) ==
  /\ IF hasBird
     THEN /\ sinceBirdSeen' = 0
          /\ noMoreBirdTimeout' = NoTimer
     ELSE /\ noMoreBirdTimeout' =
               IF noMoreBirdTimeout.st = "null" /\ sinceBirdSeen # NULL
               THEN [st |-> "pending",
                     left |-> Max(0, NO_BIRD_GRACE_PERIOD - sinceBirdSeen)]
               ELSE noMoreBirdTimeout
          /\ UNCHANGED sinceBirdSeen
  /\ LoopReturns(l)
  /\ UNCHANGED << state, stopReason, cooldownTimers, recs, nSessions, sessions, toast >>

\* (mutant of StartRecording) Recorder.start begins a new capture although
\* one is active
StartRecordingAnew(l, startOk) ==
  LET r == recorder
      s == nSessions + 1 IN
  /\ stopReason' = "null"
  /\ IF startOk
     THEN /\ nSessions < MaxSessions
          /\ state' = "recording"
          /\ nSessions' = s
          /\ sessions' = [sessions EXCEPT ![s] = [NoSession EXCEPT !.rec = r, !.mr = "recording"]]
          /\ recs' = [recs EXCEPT ![r].isRecording = TRUE, ![r].chunks = FALSE, ![r].cur = s]
          /\ loops' = [loops EXCEPT ![l] = [pc |-> "blob", sess |-> s]]
          /\ UNCHANGED << noMoreBirdTimeout, detectRunning, toast >>
     ELSE /\ state' = "idle"
          /\ noMoreBirdTimeout' = NoTimer
          /\ recs' = [recs EXCEPT ![r].chunks = FALSE]
          /\ toast' = "save"
          /\ LoopReturns(l)
          /\ UNCHANGED << nSessions, sessions >>

\* startRecording() up to `await this.recorder.start({ indefinite: true })`.
\* Recorder.start returns the pending promise while isRecording, else starts a
\* MediaRecorder; if that throws the promise is rejected and startRecording's
\* catch runs at once.
StartRecording(l, startOk) ==
  LET r == recorder
      s == nSessions + 1 IN
  /\ stopReason' = "null"
  /\ IF recs[r].isRecording
     THEN /\ state' = "recording"
          /\ loops' = [loops EXCEPT ![l] = [pc |-> "blob", sess |-> recs[r].cur]]
          /\ UNCHANGED << noMoreBirdTimeout, detectRunning, recs, nSessions, sessions, toast >>
     ELSE IF startOk
     THEN /\ nSessions < MaxSessions
          /\ state' = "recording"
          /\ nSessions' = s
          /\ sessions' = [sessions EXCEPT ![s] = [NoSession EXCEPT !.rec = r, !.mr = "recording"]]
          /\ recs' = [recs EXCEPT ![r].isRecording = TRUE, ![r].chunks = FALSE, ![r].cur = s]
          /\ loops' = [loops EXCEPT ![l] = [pc |-> "blob", sess |-> s]]
          /\ UNCHANGED << noMoreBirdTimeout, detectRunning, toast >>
     ELSE /\ state' = "idle"
          /\ noMoreBirdTimeout' = NoTimer
          /\ recs' = [recs EXCEPT ![r].chunks = FALSE]
          /\ toast' = "save"
          /\ LoopReturns(l)
          /\ UNCHANGED << nSessions, sessions >>

\* (mutant of BirdFound) a one-cycle debounce: the first positive cycle only
\* reaches 'detecting', the next one starts the recording
BirdFoundDebounced(l, startOk) ==
  /\ sinceBirdSeen' = 0
  /\ UNCHANGED cooldownTimers
  /\ IF state = "detecting"
     THEN StartRecording(l, startOk)
     ELSE /\ state' = "detecting"
          /\ LoopReturns(l)
          /\ UNCHANGED << stopReason, noMoreBirdTimeout, recs, nSessions, sessions, toast >>

\* detectionLoop, not recording, bird found: lastBirdSeenTime is set, the
\* state becomes 'detecting' and startRecording() is called in the same turn
BirdFound(l, startOk) ==
  /\ sinceBirdSeen' = 0
  /\ UNCHANGED cooldownTimers
  /\ StartRecording(l, startOk)

\* detectionLoop, not recording, no bird: detecting falls back to idle
NoBird(l) ==
  /\ state' = IF state = "detecting" THEN "idle" ELSE state
  /\ LoopReturns(l)
  /\ UNCHANGED << stopReason, sinceBirdSeen, noMoreBirdTimeout, cooldownTimers,
                  recs, nSessions, sessions, toast >>

\* detectionLoop after `await this.birdDetector.detect(this.video)` returned
\* the detections; hasBird is whether the list is non-empty
DetectDone(l) ==
  /\ loops[l].pc = "detect"
  /\ IF state = "recording" THEN WhileRecording(l, birdPresent)
     ELSE IF birdPresent THEN \E startOk \in BOOLEAN : BirdFound(l, startOk)
     ELSE NoBird(l)
  /\ UNCHANGED << detectionInterval, camVars, birdPresent, mime, detectorVars >>

\* detectionLoop when birdDetector.detect threw
DetectFails(l) ==
  /\ loops[l].pc = "detect"
  /\ DetectionError(l)
  /\ UNCHANGED << detectionInterval, camVars, birdPresent, mime, detectorVars >>

\* startRecording's catch block, run by one invocation
SaveFailed(l) ==
  /\ sessions' = [sessions EXCEPT ![loops[l].sess].errors = @ + 1]
  /\ noMoreBirdTimeout' = NoTimer
  /\ state' = "idle"
  /\ toast' = "save"
  /\ LoopReturns(l)
  /\ UNCHANGED << stopReason, sinceBirdSeen, cooldownTimers >>

\* startRecording after generateThumbnail settled (a failure is only logged):
\* saveClip(blob, thumbnail) is called
ThumbnailDone(l) ==
  /\ loops[l].pc = "thumb"
  /\ loops' = [loops EXCEPT ![l].pc = "save"]
  /\ sessions' = [sessions EXCEPT ![loops[l].sess].saves = @ + 1]
  /\ UNCHANGED << appVars, schedVars, camVars, recs, nSessions, birdPresent, toast, mime, detectorVars >>

\* startRecording after `await saveClip(...)`: updateClipCount() is called
SaveDone(l) ==
  /\ loops[l].pc = "save"
  /\ \E ok \in BOOLEAN :
       IF ok THEN /\ loops' = [loops EXCEPT ![l].pc = "count"]
                  /\ UNCHANGED << appVars, detectRunning, sessions, toast >>
             ELSE SaveFailed(l)
  /\ UNCHANGED << detectionInterval, camVars, recs, nSessions, birdPresent, mime, detectorVars >>

\* startRecording, "Transition to final state": paused after a manual stop,
\* else cooldown and a timer that leads back to idle
FinalState(l) ==
  /\ IF stopReason = "manual"
     THEN /\ state' = "paused"
          /\ UNCHANGED cooldownTimers
     ELSE /\ state' = "cooldown"
          /\ cooldownTimers' = Append(cooldownTimers, COOLDOWN_DURATION)
  /\ LoopReturns(l)
  /\ UNCHANGED << stopReason, sinceBirdSeen, noMoreBirdTimeout, sessions, toast >>

\* startRecording after `await this.updateClipCount()`
ClipCountDone(l) ==
  /\ loops[l].pc = "count"
  /\ \E ok \in BOOLEAN : IF ok THEN FinalState(l) ELSE SaveFailed(l)
  /\ UNCHANGED << detectionInterval, camVars, recs, nSessions, birdPresent, mime, detectorVars >>

\* the cooldown setTimeout callback of startRecording
CooldownElapsed(i) ==
  /\ i \in 1..Len(cooldownTimers)
  /\ cooldownTimers[i] = 0
  /\ cooldownTimers' = [j \in 1..(Len(cooldownTimers) - 1) |->
                          IF j < i THEN cooldownTimers[j] ELSE cooldownTimers[j + 1]]
  /\ state' = IF state = "cooldown" THEN "idle" ELSE state
  /\ UNCHANGED << stopReason, sinceBirdSeen, noMoreBirdTimeout, schedVars, camVars,
                  recs, nSessions, sessions, loops, birdPresent, toast, mime, detectorVars >>

\* autoStopRecording(); in any state but recording it only reports an error
AutoStopRecording ==
  IF state # "recording"
  THEN /\ toast' = "autostop"
       /\ UNCHANGED << state, stopReason, sessions >>
  ELSE /\ state' = "stopping"
       /\ stopReason' = "auto"
       /\ sessions' = RecorderStop(recorder, "auto")
       /\ UNCHANGED toast

\* the no-bird setTimeout callback of detectionLoop; the handle stays stored
NoMoreBirdTimeoutFires ==
  /\ noMoreBirdTimeout.st = "pending"
  /\ noMoreBirdTimeout.left = 0
  /\ noMoreBirdTimeout' = [st |-> "fired", left |-> 0]
  /\ AutoStopRecording
  /\ UNCHANGED << sinceBirdSeen, cooldownTimers, schedVars, camVars, recs, nSessions,
                  loops, birdPresent, mime, detectorVars >>

\* stopRecordingEarly(): the manual stop button; returns at once in any
\* state but recording
StopRecordingEarly ==
  /\ IF state # "recording"
     THEN UNCHANGED << state, stopReason, sessions >>
     ELSE /\ state' = "stopping"
          /\ stopReason' = "manual"
          /\ sessions' = RecorderStop(recorder, "manual")
  /\ UNCHANGED << sinceBirdSeen, noMoreBirdTimeout, cooldownTimers, schedVars, camVars,
                  recs, nSessions, loops, birdPresent, toast, mime, detectorVars >>

\* (mutant of ToggleDetection) pausing is allowed in every state
ToggleDetectionAnyState ==
  /\ state' = IF state = "paused" THEN "idle" ELSE "paused"
  /\ UNCHANGED << stopReason, sinceBirdSeen, noMoreBirdTimeout, cooldownTimers, schedVars,
                  camVars, recs, nSessions, sessions, loops, birdPresent, toast, mime, detectorVars >>

\* toggleDetection(): the pause/resume button; nothing happens during
\* recording, stopping and cooldown
ToggleDetection ==
  /\ state' = IF state = "paused" THEN "idle"
               ELSE IF state \in {"idle", "detecting"} THEN "paused"
               ELSE state
  /\ UNCHANGED << stopReason, sinceBirdSeen, noMoreBirdTimeout, cooldownTimers, schedVars,
                  camVars, recs, nSessions, sessions, loops, birdPresent, toast, mime, detectorVars >>

\* showReview(): detection is stopped and the camera tracks are stopped
ShowReview ==
  /\ view = "camera"
  /\ StopDetection
  /\ recs' = IF stream THEN [recs EXCEPT ![recorder].ended = TRUE] ELSE recs
  /\ stream' = FALSE
  /\ view' = "review"
  /\ UNCHANGED << appVars, detectRunning, camPending, recorder, nRecorders, nSessions,
                  sessions, loops, birdPresent, toast, mime, detectorVars >>

\* showCamera() up to `await this.initCamera()`, or to its end when the
\* stream is still there
ShowCamera ==
  /\ view = "review"
  /\ view' = "camera"
  /\ IF ~stream
     THEN /\ nRecorders + camPending < MaxRecorders
          /\ camPending' = camPending + 1
          /\ UNCHANGED schedVars
     ELSE /\ UNCHANGED camPending
          /\ IF ~detectionInterval THEN StartDetection ELSE UNCHANGED schedVars
  /\ UNCHANGED << appVars, stream, recorder, nRecorders, recs, nSessions, sessions,
                  loops, birdPresent, toast, mime, detectorVars >>

\* showCamera() after initCamera(): a new stream and a new Recorder on it,
\* then detection is resumed; a camera failure is reported and nothing else
InitCameraDone ==
  /\ camPending > 0
  /\ camPending' = camPending - 1
  /\ \E ok \in BOOLEAN :
       IF ok
       THEN /\ stream' = TRUE
            /\ nRecorders' = nRecorders + 1
            /\ recorder' = nRecorders + 1
            /\ recs' = [recs EXCEPT ![nRecorders + 1] = NoRecorder]
            /\ IF ~detectionInterval THEN StartDetection ELSE UNCHANGED schedVars
            /\ UNCHANGED toast
       ELSE /\ toast' = "camera"
            /\ UNCHANGED << stream, nRecorders, recorder, recs, schedVars >>
  /\ UNCHANGED << appVars, view, nSessions, sessions, loops, birdPresent, mime, detectorVars >>

\* ---------------------------------------------------------- environment --
\* a setTimeout callback is due
TimerDue ==
  \/ noMoreBirdTimeout.st = "pending" /\ noMoreBirdTimeout.left = 0
  \/ \E i \in 1..Len(cooldownTimers) : cooldownTimers[i] = 0

\* TimeStep milliseconds pass
Advance ==
  /\ ~TimerDue
  /\ sinceBirdSeen' = IF sinceBirdSeen = NULL THEN NULL
                      ELSE Min(sinceBirdSeen + TimeStep, NO_BIRD_GRACE_PERIOD)
  /\ noMoreBirdTimeout' = [noMoreBirdTimeout EXCEPT !.left = Max(0, @ - TimeStep)]
  /\ cooldownTimers' = [i \in 1..Len(cooldownTimers) |->
                          Max(0, cooldownTimers[i] - TimeStep)]
  /\ UNCHANGED << state, stopReason, schedVars, camVars, recs, nSessions, sessions,
                  loops, birdPresent, toast, mime, detectorVars >>

\* a bird arrives or leaves
BirdMoves ==
  /\ birdPresent' = ~birdPresent
  /\ UNCHANGED << appVars, schedVars, camVars, recs, nSessions, sessions, loops, toast, mime, detectorVars >>

Next ==
  \/ IntervalTick
  \/ \E l \in Loops : DetectDone(l)
  \/ \E l \in Loops : DetectFails(l)
  \/ \E l \in Loops : ThumbnailDone(l)
  \/ \E l \in Loops : SaveDone(l)
  \/ \E l \in Loops : ClipCountDone(l)
  \/ \E i \in 1..MaxSessions * MaxLoops : CooldownElapsed(i)
  \/ NoMoreBirdTimeoutFires
  \/ StopRecordingEarly
  \/ ToggleDetection
  \/ ShowReview
  \/ ShowCamera
  \/ InitCameraDone
  \/ \E s \in Sessions : DataAvailable(s)
  \/ \E s \in Sessions : OnStop(s)
  \/ \E s \in Sessions : FixDone(s)
  \/ \E s \in Sessions : OnError(s)
  \/ \E s \in Sessions : TracksEnded(s)
  \/ Advance
  \/ BirdMoves

Spec == Init /\ [][Next]_vars

\* What the event loop and the collaborators guarantee: the interval keeps
\* ticking, timers that are due run, pending detector, device and storage
\* operations complete, time passes.  Nothing is assumed of the user, of the
\* bird, of device errors or of what the browser does to a recorder whose
\* tracks were stopped.
Fairness ==
  /\ WF_vars(IntervalTick)
  /\ WF_vars(\E l \in Loops : DetectDone(l))
  /\ WF_vars(\E l \in Loops : ThumbnailDone(l))
  /\ WF_vars(\E l \in Loops : SaveDone(l))
  /\ WF_vars(\E l \in Loops : ClipCountDone(l))
  /\ WF_vars(\E i \in 1..MaxSessions * MaxLoops : CooldownElapsed(i))
  /\ WF_vars(NoMoreBirdTimeoutFires)
  /\ WF_vars(\E s \in Sessions : OnStop(s))
  /\ WF_vars(\E s \in Sessions : FixDone(s))
  /\ WF_vars(InitCameraDone)
  /\ WF_vars(Advance)

FairSpec == Spec /\ Fairness

\* ----------------------------------------------- BirdDetector.nms alone --
\* the App at rest
MachineAtRest ==
  /\ state = "idle"
  /\ stopReason = "null"
  /\ sinceBirdSeen = NULL
  /\ noMoreBirdTimeout = NoTimer
  /\ cooldownTimers = << >>
  /\ detectionInterval = TRUE
  /\ detectRunning = FALSE
  /\ stream = TRUE
  /\ view = "camera"
  /\ camPending = 0
  /\ recorder = 1
  /\ nRecorders = 1
  /\ recs = [r \in Recorders |-> NoRecorder]
  /\ nSessions = 0
  /\ sessions = [s \in Sessions |-> NoSession]
  /\ loops = [l \in Loops |-> FreeLoop]
  /\ birdPresent = FALSE
  /\ toast = "none"
  /\ mime = "mp4"

\* any list of up to MaxDets detections, any of the thresholds
NmsInit ==
  /\ MachineAtRest
  /\ MotionIdle
  /\ TakeIdle
  /\ nmsIn \in [detections : ListsUpTo(Detections, MaxDets), nmsIouThreshold : Thresholds]
  /\ nmsOut = [NoNms EXCEPT !.phase = "input"]
  /\ IouIdle
  /\ TileIdle
  /\ LoadDone
  /\ DetectIdle

\* nms is called on the list
NmsCall ==
  /\ nmsOut.phase = "input"
  /\ nmsOut' = [phase |-> "merged",
                kept |-> nms(nmsIn.detections, nmsIn.nmsIouThreshold),
                from |-> NmsKept(nmsIn.detections, nmsIn.nmsIouThreshold),
                again |-> << >>]
  /\ UNCHANGED << machineVars, motionVars, takeVars, nmsIn, iouVars, tileVars, loadVars, detectVars >>

\* nms is called on the list it returned
NmsAgain ==
  /\ nmsOut.phase = "merged"
  /\ nmsOut' = [nmsOut EXCEPT !.phase = "remerged",
                              !.again = nms(nmsOut.kept, nmsIn.nmsIouThreshold)]
  /\ UNCHANGED << machineVars, motionVars, takeVars, nmsIn, iouVars, tileVars, loadVars, detectVars >>

NmsNext == NmsCall \/ NmsAgain

NmsSpec == NmsInit /\ [][NmsNext]_vars

\* ----------------------------------------------- BirdDetector.iou alone --
\* any two boxes
IouInit ==
  /\ MachineAtRest
  /\ MotionIdle
  /\ TakeIdle
  /\ NmsIdle
  /\ TileIdle
  /\ LoadDone
  /\ DetectIdle
  /\ iouIn \in Boxes \X Boxes
  /\ iouOut = [NoIou EXCEPT !.phase = "input"]

\* iou is called on the two boxes, both ways round, and on the first alone
IouCall ==
  /\ iouOut.phase = "input"
  /\ iouOut' = [phase |-> "done",
                ab |-> iou(iouIn[1], iouIn[2]),
                ba |-> iou(iouIn[2], iouIn[1]),
                aa |-> iou(iouIn[1], iouIn[1])]
  /\ UNCHANGED << machineVars, motionVars, takeVars, nmsVars, iouIn, tileVars, loadVars, detectVars >>

IouNext == IouCall

IouSpec == IouInit /\ [][IouNext]_vars

\* ------------------------------------------------- BirdDetector.load --
\* load() is called; lib: the cocoSsd global is defined.  With a model it
\* returns; during a load it starts polling; else it sets isLoading and
\* awaits cocoSsd.load(), or throws at once (and `finally` resets isLoading)
\* when the library is missing
LoadCall(c, lib) ==
  /\ loads[c] = "none"
  /\ \A b \in LoadCalls : b < c => loads[b] # "none"
  /\ IF model
     THEN loads' = [loads EXCEPT ![c] = "returned"] /\ UNCHANGED << isLoading, cocoStarted >>
     ELSE IF isLoading
     THEN loads' = [loads EXCEPT ![c] = "polling"] /\ UNCHANGED << isLoading, cocoStarted >>
     ELSE IF ~lib
     THEN loads' = [loads EXCEPT ![c] = "threw"] /\ UNCHANGED << isLoading, cocoStarted >>
     ELSE /\ loads' = [loads EXCEPT ![c] = "loading"]
          /\ isLoading' = TRUE
          /\ cocoStarted' = cocoStarted + 1
  /\ UNCHANGED << machineVars, motionVars, takeVars, nmsVars, iouVars, tileVars, model, detectVars >>

\* cocoSsd.load() resolves: the model is kept, `finally` resets isLoading
CocoLoaded(c) ==
  /\ loads[c] = "loading"
  /\ model' = TRUE
  /\ isLoading' = FALSE
  /\ loads' = [loads EXCEPT ![c] = "returned"]
  /\ UNCHANGED << machineVars, motionVars, takeVars, nmsVars, iouVars, tileVars, cocoStarted, detectVars >>

\* cocoSsd.load() rejects: `finally` resets isLoading, load() throws
CocoLoadFails(c) ==
  /\ loads[c] = "loading"
  /\ isLoading' = FALSE
  /\ loads' = [loads EXCEPT ![c] = "threw"]
  /\ UNCHANGED << machineVars, motionVars, takeVars, nmsVars, iouVars, tileVars, model, cocoStarted, detectVars >>

\* (mutant of PollTimer) a call that finds no load in progress starts one
PollTimerLoads(c) ==
  /\ loads[c] = "polling"
  /\ IF isLoading THEN UNCHANGED << loads, isLoading, cocoStarted >>
     ELSE /\ loads' = [loads EXCEPT ![c] = "loading"]
          /\ isLoading' = TRUE
          /\ cocoStarted' = cocoStarted + 1
  /\ UNCHANGED << machineVars, motionVars, takeVars, nmsVars, iouVars, tileVars, model, detectVars >>

\* the 100 ms timer of a waiting load() fires: it waits on while isLoading,
\* else it returns
PollTimer(c) ==
  /\ loads[c] = "polling"
  /\ loads' = [loads EXCEPT ![c] = IF isLoading THEN "polling" ELSE "returned"]
  /\ UNCHANGED << machineVars, motionVars, takeVars, nmsVars, iouVars, tileVars, model, isLoading, cocoStarted,
                  detectVars >>

\* ----------------------------------------------- BirdDetector.detect --
\* (mutant of DetectCall) detect does not look at this.model
DetectCallUnguarded ==
  /\ call.pc \in {"none", "returned", "threw"}
  /\ call' = [NoCall EXCEPT !.pc = "scoring"]
  /\ scans' = << Scan(frame, 1) >>
  /\ UNCHANGED << machineVars, motionVars, takeVars, nmsVars, iouVars, tileVars, loadVars, frame >>

\* detect(source, softwareZoom) is called, no other call being in flight:
\* without a model it throws, else it crops, and hands the working frame or
\* its first tile to the scorer
DetectCall ==
  /\ call.pc \in {"none", "returned", "threw"}
  /\ IF ~model
     THEN /\ call' = [NoCall EXCEPT !.pc = "threw", !.error = "notready"]
          /\ scans' = << >>
     ELSE /\ call' = [NoCall EXCEPT !.pc = "scoring"]
          /\ scans' = << Scan(frame, 1) >>
  /\ UNCHANGED << machineVars, motionVars, takeVars, nmsVars, iouVars, tileVars, loadVars, frame >>

\* (mutant of ScorerReturns) the next tile is handed over without a yield
ScorerReturnsNoYield(predictions) ==
  /\ call.pc = "scoring"
  /\ LET k == Len(scans) IN
     /\ IF frame.tileGrid <= 1
        THEN /\ call' = [call EXCEPT !.pc = "returned", !.predictions = predictions,
                            !.result = Remap(filterPredictions(predictions), 0, 0,
                                             cropOffsetX(frame), cropOffsetY(frame))]
             /\ scans' = [scans EXCEPT ![k].st = "done"]
        ELSE LET found == Remap(filterPredictions(predictions), scans[k].sx, scans[k].sy,
                                cropOffsetX(frame), cropOffsetY(frame))
                 all == call.allDetections \o found
             IN IF k < frame.tileGrid * frame.tileGrid
                THEN /\ call' = [call EXCEPT !.allDetections = all]
                     /\ scans' = Append([scans EXCEPT ![k].st = "done"], Scan(frame, k + 1))
                ELSE /\ call' = [call EXCEPT !.pc = "returned", !.allDetections = all,
                                             !.result = nms(all, NMS_IOU_THRESHOLD)]
                     /\ scans' = [scans EXCEPT ![k].st = "done"]
  /\ UNCHANGED << machineVars, motionVars, takeVars, nmsVars, iouVars, tileVars, loadVars, frame >>

\* this.model.detect() resolves with predictions.  With tileGrid <= 1 detect
\* filters them, adds the crop's offset and returns; else it keeps them and
\* awaits setTimeout(0)
ScorerReturns(predictions) ==
  /\ call.pc = "scoring"
  /\ scans' = [scans EXCEPT ![Len(scans)].st = "done"]
  /\ IF frame.tileGrid <= 1
     THEN call' = [call EXCEPT !.pc = "returned", !.predictions = predictions,
                               !.result = Remap(filterPredictions(predictions), 0, 0,
                                                cropOffsetX(frame), cropOffsetY(frame))]
     ELSE call' = [call EXCEPT !.pc = "yield", !.predictions = predictions]
  /\ UNCHANGED << machineVars, motionVars, takeVars, nmsVars, iouVars, tileVars, loadVars, frame >>

\* (mutant of ScorerFails) the tiles collected so far are returned
ScorerFailsPartial ==
  /\ call.pc = "scoring"
  /\ scans' = [scans EXCEPT ![Len(scans)].st = "failed"]
  /\ call' = [call EXCEPT !.pc = "returned",
                          !.result = nms(call.allDetections, NMS_IOU_THRESHOLD)]
  /\ UNCHANGED << machineVars, motionVars, takeVars, nmsVars, iouVars, tileVars, loadVars, frame >>

\* this.model.detect() rejects: detect throws (allDetections stays what the
\* earlier tiles gave, nothing is returned)
ScorerFails ==
  /\ call.pc = "scoring"
  /\ scans' = [scans EXCEPT ![Len(scans)].st = "failed"]
  /\ call' = [call EXCEPT !.pc = "threw", !.error = "scorer"]
  /\ UNCHANGED << machineVars, motionVars, takeVars, nmsVars, iouVars, tileVars, loadVars, frame >>

\* the setTimeout(0) after a tile fires: the tile's predictions that pass are
\* pushed to allDetections in frame coordinates; then the next tile goes to
\* the scorer, or after the last tile nms(allDetections) is returned
Yielded ==
  /\ call.pc = "yield"
  /\ LET k == Len(scans)
         found == Remap(filterPredictions(call.predictions), scans[k].sx, scans[k].sy,
                        cropOffsetX(frame), cropOffsetY(frame))
         all == call.allDetections \o found
     IN IF k < frame.tileGrid * frame.tileGrid
        THEN /\ call' = [call EXCEPT !.pc = "scoring", !.predictions = << >>,
                                     !.allDetections = all]
             /\ scans' = Append(scans, Scan(frame, k + 1))
        ELSE /\ call' = [call EXCEPT !.pc = "returned", !.predictions = << >>,
                                     !.allDetections = all,
                                     !.result = nms(all, NMS_IOU_THRESHOLD)]
             /\ scans' = scans
  /\ UNCHANGED << machineVars, motionVars, takeVars, nmsVars, iouVars, tileVars, loadVars, frame >>

\* the predictions the scorer may give for the image it holds
Answers == ListsUpTo(Preds(scans[Len(scans)].w, scans[Len(scans)].h), MaxPreds)

\* a loaded detector, any source, zoom, grid of 1 or 2 and overlap
DetectInit ==
  /\ MachineAtRest
  /\ MotionIdle
  /\ TakeIdle
  /\ NmsIdle
  /\ IouIdle
  /\ TileIdle
  /\ LoadDone
  /\ frame \in {[srcWidth |-> s[1], srcHeight |-> s[2], softwareZoom |-> z,
                  tileGrid |-> g, tileOverlap |-> o] :
                   s \in Sources, z \in Zooms, g \in {1, DETECTION_TILE_GRID},
                   o \in {0, DETECTION_TILE_OVERLAP}}
  /\ call = NoCall
  /\ scans = << >>

DetectNext ==
  \/ DetectCall
  \/ call.pc = "scoring" /\ \E predictions \in Answers : ScorerReturns(predictions)
  \/ ScorerFails
  \/ Yielded

DetectSpec == DetectInit /\ [][DetectNext]_vars

\* a new detector with tileGrid 1: load and detect calls in any order
LoadInit ==
  /\ MachineAtRest
  /\ MotionIdle
  /\ TakeIdle
  /\ NmsIdle
  /\ IouIdle
  /\ TileIdle
  /\ model = FALSE
  /\ isLoading = FALSE
  /\ loads = [c \in LoadCalls |-> "none"]
  /\ cocoStarted = 0
  /\ frame = [DefaultFrame EXCEPT !.tileGrid = 1]
  /\ call = NoCall
  /\ scans = << >>

\* Yielded is left out: with tileGrid 1 no call awaits the timer between tiles
LoadNext ==
  \/ \E c \in LoadCalls, lib \in BOOLEAN : LoadCall(c, lib)
  \/ \E c \in LoadCalls : CocoLoaded(c)
  \/ \E c \in LoadCalls : CocoLoadFails(c)
  \/ \E c \in LoadCalls : PollTimer(c)
  \/ DetectCall
  \/ call.pc = "scoring" /\ \E predictions \in Answers : ScorerReturns(predictions)
  \/ ScorerFails

LoadSpec == LoadInit /\ [][LoadNext]_vars

\* ---------------------------------- Recorder with its duration timer --
\* time passes in steps of half the duration
TakeStep == RECORDING_DURATION \div 2

\* Recorder.stop(): forwarded to this.mediaRecorder while isRecording; a
\* MediaRecorder that is no longer recording ignores it.  `why` is who
\* called: "stop" from outside, or "timer" of take k.
TakeStopped(why, k) ==
  IF mediaRecorder # 0 /\ isRecording /\ takes[mediaRecorder].mr = "recording"
  THEN [takes EXCEPT ![mediaRecorder].mr = "stopping", ![mediaRecorder].by = why,
                     ![mediaRecorder].timerOf = k]
  ELSE takes

\* Recorder.start({ indefinite }): while isRecording the pending promise is
\* returned; else a MediaRecorder is created and started and, unless
\* indefinite, a timer of `duration` is set; if the MediaRecorder cannot be
\* created or started, isRecording is reset and no timer is set
TakeStart(indefinite, ok) ==
  LET k == CHOOSE j \in Takes : takes[j].mr = "unused" /\ \A i \in Takes : i < j => takes[i].mr # "unused" IN
  /\ \E j \in Takes : takes[j].mr = "unused"
  /\ IF isRecording
     THEN UNCHANGED takeVars
     ELSE IF ok
     THEN /\ isRecording' = TRUE
          /\ mediaRecorder' = k
          /\ takes' = [takes EXCEPT ![k] =
                         [NoTake EXCEPT !.mr = "recording", !.indefinite = indefinite,
                                        !.timer = IF indefinite THEN "none" ELSE "pending",
                                        !.left = IF indefinite THEN 0 ELSE RECORDING_DURATION]]
     ELSE /\ isRecording' = FALSE
          /\ takes' = [takes EXCEPT ![k] = [NoTake EXCEPT !.mr = "failed", !.indefinite = indefinite]]
          /\ UNCHANGED mediaRecorder
  /\ UNCHANGED << machineVars, motionVars, nmsVars, iouVars, tileVars, loadVars, detectVars >>

\* Recorder.stop() called from outside
TakeStop ==
  /\ takes' = TakeStopped("stop", 0)
  /\ UNCHANGED << machineVars, motionVars, nmsVars, iouVars, tileVars, loadVars, detectVars,
                  isRecording, mediaRecorder >>

\* the setTimeout callback set by the start() that created take k:
\* `if (this.isRecording) this.stop()`
TakeTimerFires(k) ==
  /\ takes[k].timer = "pending"
  /\ takes[k].left = 0
  /\ takes' = [TakeStopped("timer", k) EXCEPT ![k].timer = "fired"]
  /\ UNCHANGED << machineVars, motionVars, nmsVars, iouVars, tileVars, loadVars, detectVars,
                  isRecording, mediaRecorder >>

\* mediaRecorder.onstop of take k: isRecording is reset and the promise is
\* rejected when no data was recorded, else resolved
TakeOnStop(k, chunks) ==
  /\ takes[k].mr = "stopping"
  /\ isRecording' = FALSE
  /\ takes' = [takes EXCEPT ![k].mr = IF chunks THEN "resolved" ELSE "rejected"]
  /\ UNCHANGED << machineVars, motionVars, nmsVars, iouVars, tileVars, loadVars, detectVars,
                  mediaRecorder >>

\* mediaRecorder.onerror of take k
TakeOnError(k) ==
  /\ takes[k].mr = "recording"
  /\ isRecording' = FALSE
  /\ takes' = [takes EXCEPT ![k].mr = "rejected", ![k].by = "error"]
  /\ UNCHANGED << machineVars, motionVars, nmsVars, iouVars, tileVars, loadVars, detectVars,
                  mediaRecorder >>

\* TakeStep milliseconds pass, no timer being due
TakeAdvance ==
  /\ \A k \in Takes : ~(takes[k].timer = "pending" /\ takes[k].left = 0)
  /\ takes' = [k \in Takes |->
                 [takes[k] EXCEPT !.age = IF takes[k].mr = "unused" THEN 0
                                          ELSE Min(@ + TakeStep, RECORDING_DURATION),
                                  !.left = Max(0, @ - TakeStep)]]
  /\ UNCHANGED << machineVars, motionVars, nmsVars, iouVars, tileVars, loadVars, detectVars,
                  isRecording, mediaRecorder >>

\* a new Recorder
TakeInit ==
  /\ MachineAtRest
  /\ MotionIdle
  /\ BirdDetectorIdle
  /\ isRecording = FALSE
  /\ mediaRecorder = 0
  /\ takes = [k \in Takes |-> NoTake]

TakeNext ==
  \/ \E indefinite, ok \in BOOLEAN : TakeStart(indefinite, ok)
  \/ TakeStop
  \/ \E k \in Takes : TakeTimerFires(k)
  \/ \E k \in Takes, chunks \in BOOLEAN : TakeOnStop(k, chunks)
  \/ \E k \in Takes : TakeOnError(k)
  \/ TakeAdvance

TakeSpec == TakeInit /\ [][TakeNext]_vars

\* ------------------------------------------- MotionDetector, alone --
\* any two frames, one of them possibly absent; the configured share of
\* pixels, a quarter and a half; sample sizes of 1, 2 and the configured one
MotionInit ==
  /\ MachineAtRest
  /\ TakeIdle
  /\ BirdDetectorIdle
  /\ motionIn \in [currentFrame : Frames \cup {NoFrame}, previousFrame : Frames \cup {NoFrame},
                   pixelPercent : {MOTION_PIXEL_PERCENT, 250, 500},
                   sampleSize : {1, 2, MOTION_SAMPLE_SIZE}]
  /\ motionOut = [NoMotion EXCEPT !.phase = "input"]

\* detect is called on the two frames
MotionCall ==
  /\ motionOut.phase = "input"
  /\ motionOut' = MotionDetect(motionIn.currentFrame, motionIn.previousFrame,
                               motionIn.pixelPercent, motionIn.sampleSize)
  /\ UNCHANGED << machineVars, takeVars, nmsVars, iouVars, tileVars, loadVars, detectVars,
                  motionIn >>

MotionNext == MotionCall

MotionSpec == MotionInit /\ [][MotionNext]_vars

\* ------------------------------------- the tiling of detect, alone --
\* any frame, grid and overlap
TileInit ==
  /\ MachineAtRest
  /\ MotionIdle
  /\ TakeIdle
  /\ NmsIdle
  /\ IouIdle
  /\ LoadDone
  /\ DetectIdle
  /\ tileIn \in [detectW : FrameWidths, detectH : FrameHeights,
                 grid : Grids, overlap : Overlaps]
  /\ tileOut = [NoTiles EXCEPT !.phase = "input"]

\* detect lays the tiles out
TileLayout ==
  /\ tileOut.phase = "input"
  /\ tileOut' = [phase |-> "done",
                 tileW |-> TileDim(tileIn.detectW, tileIn.grid, tileIn.overlap),
                 tileH |-> TileDim(tileIn.detectH, tileIn.grid, tileIn.overlap),
                 stepX |-> TileStep(TileDim(tileIn.detectW, tileIn.grid, tileIn.overlap),
                                    tileIn.overlap),
                 stepY |-> TileStep(TileDim(tileIn.detectH, tileIn.grid, tileIn.overlap),
                                    tileIn.overlap),
                 origins |-> TileOrigins(tileIn.detectW, tileIn.detectH,
                                         tileIn.grid, tileIn.overlap)]
  /\ UNCHANGED << machineVars, motionVars, takeVars, nmsVars, iouVars, tileIn, loadVars, detectVars >>

TileNext == TileLayout

TileSpec == TileInit /\ [][TileNext]_vars

\* ---------------------------------------------------------------- claims --

C2_OneCaptureSession ==
  Cardinality({s \in Sessions : sessions[s].mr = "recording"}) <= 1

\* C3: while recording with the periodic detection running, once the object
\* is absent and stays absent the auto-stop timer is armed and fires, so the
\* recording is left (recording -> stopping).
C3_AutoStopWhenBirdLeft ==
  (state = "recording" /\ ~birdPresent /\ detectionInterval)
    ~> (birdPresent \/ ~detectionInterval \/ state # "recording")

\* C4: during recording a positive cycle that finds a stop timeout pending
\* cancels it and refreshes the last-seen time, and the state stays recording;
\* an auto stop is only ever signalled by a stored timeout that is due, so
\* none is signalled at the time the cancelled one was set for.
C4_ReappearCancelsAutoStop ==
  [][/\ \A l \in Loops :
          (state = "recording" /\ birdPresent /\ noMoreBirdTimeout.st = "pending"
             /\ DetectDone(l))
            => (noMoreBirdTimeout' = NoTimer /\ sinceBirdSeen' = 0 /\ state' = "recording")
     /\ (state = "recording" /\ state' = "stopping" /\ stopReason' = "auto")
            => (noMoreBirdTimeout.st = "pending" /\ noMoreBirdTimeout.left = 0)]_vars

\* recording, a stop timeout pending with half the grace period left, the
\* bird back and a detection cycle about to report it
C4_Witness ==
  /\ state = "recording"
  /\ birdPresent
  /\ noMoreBirdTimeout = [st |-> "pending", left |-> TimeStep]
  /\ \E l \in Loops : loops[l].pc = "detect"

\* C5: when the capture that a manual stop ended has been finalized and
\* saved, the final transition gives paused.
C5_ManualStopPauses ==
  [][\A l \in Loops :
       (loops[l].pc = "count" /\ sessions[loops[l].sess].stop = "manual" /\ FinalState(l))
         => state' = "paused"]_vars

\* C6: when the capture that an auto stop ended has been finalized and saved,
\* the final transition gives cooldown, and cooldown is left only for idle.
C6_AutoStopCooldownThenIdle ==
  [][/\ \A l \in Loops :
          (loops[l].pc = "count" /\ sessions[loops[l].sess].stop = "auto" /\ FinalState(l))
            => state' = "cooldown"
     /\ (state = "cooldown" /\ stopReason = "auto") => state' \in {"cooldown", "idle"}]_vars

\* C7: saveClip is called at most once per capture session, and once for a
\* session whose promise resolved with a blob (as soon as the thumbnail step
\* of its startRecording is over).
C7_SaveOncePerSession ==
  \A s \in Sessions :
    /\ sessions[s].saves <= 1
    /\ (sessions[s].mr = "resolved" /\ ~\E l \in Loops : loops[l] = [pc |-> "thumb", sess |-> s])
         => sessions[s].saves = 1

\* C8: when the stop event finds no chunks the failure is reported, the state
\* becomes idle whatever stopReason is, and saveClip is not called for that
\* session, then or later.
C8_EmptyCaptureNotPersisted ==
  [][\A s \in Sessions :
       /\ (sessions[s].mr = "stopping" /\ ~recs[sessions[s].rec].chunks /\ OnStop(s))
            => /\ state' = "idle"
               /\ sessions'[s].mr = "rejected"
               /\ sessions'[s].errors > sessions[s].errors
       /\ sessions'[s].mr = "rejected" => sessions'[s].saves = 0]_vars

\* an empty capture that a manual stop ended: reported, idle, nothing saved
C8_Witness ==
  \E s \in Sessions :
    /\ sessions[s].mr = "rejected"
    /\ sessions[s].stop = "manual"
    /\ stopReason = "manual"
    /\ sessions[s].errors = 1
    /\ sessions[s].saves = 0
    /\ state = "idle"

\* C9: a failed saveClip is reported once and gives idle, and after it
\* saveClip is not called again for that capture.
C9_SaveFailureNotRetried ==
  [][\A s \in Sessions :
       /\ \A l \in Loops :
            (loops[l] = [pc |-> "save", sess |-> s] /\ SaveFailed(l))
              => (state' = "idle" /\ sessions'[s].errors = sessions[s].errors + 1)
       /\ (sessions[s].mr = "resolved" /\ sessions[s].errors > 0)
              => sessions'[s].saves = sessions[s].saves]_vars

\* C10: at most one detection cycle is waiting for the detector at any time.
C10_NoOverlappingCycles ==
  Cardinality({l \in Loops : loops[l].pc = "detect"}) <= 1

\* the states in which detectionLoop returns before calling the detector
Suppressed == {"cooldown", "paused", "stopping"}

\* C11: while the state is cooldown, paused or stopping no detector call is
\* started, and no detection cycle (a tick, or the return of a detector call)
\* changes the state, the last-seen time or the stop timeout.
C11_SuppressedWhileNotWatching ==
  [][(state \in Suppressed) =>
       /\ \A l \in Loops : loops'[l].pc = "detect" => loops[l].pc = "detect"
       /\ (IntervalTick \/ \E l \in Loops : DetectDone(l) \/ DetectFails(l))
            => (UNCHANGED << state, sinceBirdSeen, noMoreBirdTimeout >>)]_vars

\* C12: when the detector throws, the error is reported, the state, the stop
\* reason, the last-seen time and the timers stay as they were, the
\* invocation ends and the busy flag is released; and a tick that finds the
\* flag released in a watching state starts a detection cycle.
C12_DetectorErrorNonFatal ==
  [][/\ \A l \in Loops :
          DetectFails(l) => /\ toast' = "detection"
                            /\ UNCHANGED appVars
                            /\ loops'[l] = FreeLoop
                            /\ ~detectRunning'
     /\ (IntervalTick /\ ~detectRunning /\ state \notin Suppressed)
          => \E l \in Loops : loops[l].pc = "free" /\ loops'[l].pc = "detect"]_vars

\* a detector error was reported before any recording, and the next tick has
\* started a detection cycle in idle
C12_Witness ==
  /\ toast = "detection"
  /\ nSessions = 0
  /\ state = "idle"
  /\ detectionInterval
  /\ detectRunning
  /\ \E l \in Loops : loops[l].pc = "detect"

\* C13: going to the review view stops the interval and leaves the cycles in
\* flight and the capture sessions as they are, a session that is recording
\* keeps the tracks it records; and while the review view is shown no
\* detection cycle is started.
C13_ReviewKeepsRecording ==
  [][/\ (view = "camera" /\ view' = "review")
          => /\ ~detectionInterval'
             /\ loops' = loops
             /\ sessions' = sessions
             /\ \A s \in Sessions :
                  sessions[s].mr = "recording" => ~recs'[sessions[s].rec].ended
     /\ (view = "review" /\ view' = "review")
          => \A l \in Loops : loops'[l].pc = "detect" => loops[l].pc = "detect"]_vars

\* C14: the pause/resume button turns idle and detecting into paused and
\* paused into idle, and in recording, stopping and cooldown changes nothing;
\* the stop button outside recording changes nothing; neither touches the
\* stop reason (outside recording) or a capture session.
C14_PauseResumeTable ==
  [][/\ ToggleDetection
          => /\ state \in {"idle", "detecting"} => state' = "paused"
             /\ state = "paused" => state' = "idle"
             /\ state \in {"recording", "stopping", "cooldown"} => state' = state
             /\ UNCHANGED << stopReason, sessions, recs >>
     /\ (StopRecordingEarly /\ state # "recording")
          => (UNCHANGED << state, stopReason, sessions, recs >>)]_vars

\* paused by the button before any recording was made
C14_Witness ==
  /\ state = "paused"
  /\ nSessions = 0
  /\ stopReason = "null"

\* C15: nms applied to the list nms returned gives that list again, as a
\* sequence, for every list and threshold.
C15_NmsIdempotent ==
  nmsOut.phase = "remerged" => nmsOut.again = nmsOut.kept

\* a merge that dropped a detection and kept two of equal score, merged again
C15_Witness ==
  /\ nmsOut.phase = "remerged"
  /\ Len(nmsOut.kept) < Len(nmsIn.detections)
  /\ \E p, q \in 1..Len(nmsOut.kept) : p < q /\ nmsOut.kept[p].score = nmsOut.kept[q].score

\* C16: no two detections of the list nms returned have the same class and
\* an IoU above the threshold.
C16_NoKeptPairOverlaps ==
  nmsOut.phase # "input" =>
    \A p, q \in 1..Len(nmsOut.kept) :
      (p # q /\ nmsOut.kept[p].class = nmsOut.kept[q].class)
        => ~Above(iou(nmsOut.kept[p].bbox, nmsOut.kept[q].bbox), nmsIn.nmsIouThreshold)

\* two kept detections of one class that overlap, but not above the
\* threshold, next to one that was dropped
C16_Witness ==
  /\ nmsOut.phase = "merged"
  /\ Len(nmsOut.kept) < Len(nmsIn.detections)
  /\ \E p, q \in 1..Len(nmsOut.kept) :
       /\ p # q
       /\ nmsOut.kept[p].class = nmsOut.kept[q].class
       /\ iou(nmsOut.kept[p].bbox, nmsOut.kept[q].bbox).num > 0

\* C17: the list nms returned is in descending order of score, and
\* detections of equal score are in the order they had in the input.
C17_ScoreDescendingStable ==
  nmsOut.phase # "input" =>
    /\ Len(nmsOut.from) = Len(nmsOut.kept)
    /\ \A p \in 1..Len(nmsOut.kept) :
         /\ nmsOut.from[p] \in 1..Len(nmsIn.detections)
         /\ nmsOut.kept[p] = nmsIn.detections[nmsOut.from[p]]
    /\ \A p, q \in 1..Len(nmsOut.kept) :
         p < q => \/ nmsOut.kept[p].score > nmsOut.kept[q].score
                  \/ /\ nmsOut.kept[p].score = nmsOut.kept[q].score
                     /\ nmsOut.from[p] < nmsOut.from[q]

\* a returned list whose order is not the input's: a higher score from
\* further back comes first, and two equal scores follow in input order
C17_Witness ==
  /\ nmsOut.phase = "merged"
  /\ Len(nmsOut.kept) = MaxDets
  /\ nmsOut.from[1] > nmsOut.from[2]
  /\ nmsOut.kept[2].score = nmsOut.kept[3].score
  /\ nmsOut.kept[2] # nmsOut.kept[3]

\* i comes before j in the sorted list: higher score, or equal score and
\* earlier in the input
Before(D, i, j) ==
  \/ D[i].score > D[j].score
  \/ D[i].score = D[j].score /\ i < j

\* i suppresses j when kept: same class and IoU above the threshold
Suppresses(D, i, j, t) ==
  /\ D[i].class = D[j].class
  /\ Above(iou(D[i].bbox, D[j].bbox), t)

\* C18: nms returns a sub-list of the sorted input, and a detection is left
\* out exactly when a kept detection before it has its class and an IoU with
\* it above the threshold; other classes and dropped detections play no part.
C18_GreedySweep ==
  nmsOut.phase # "input" =>
    LET D == nmsIn.detections
        K == {nmsOut.from[p] : p \in 1..Len(nmsOut.from)}
    IN /\ Cardinality(K) = Len(nmsOut.from)
       /\ K \subseteq 1..Len(D)
       /\ \A p \in 1..Len(nmsOut.kept) : nmsOut.kept[p] = D[nmsOut.from[p]]
       /\ \A p, q \in 1..Len(nmsOut.from) :
            p < q => Before(D, nmsOut.from[p], nmsOut.from[q])
       /\ \A j \in 1..Len(D) :
            j \in K <=> ~\E i \in K : Before(D, i, j) /\ Suppresses(D, i, j, nmsIn.nmsIouThreshold)

\* a dropped detection that would have suppressed a kept one of its class
C18_Witness ==
  LET D == nmsIn.detections
      K == {nmsOut.from[p] : p \in 1..Len(nmsOut.from)}
  IN /\ nmsOut.phase = "merged"
     /\ \E j \in (1..Len(D)) \ K : \E k \in K :
          Before(D, j, k) /\ Suppresses(D, j, k, nmsIn.nmsIouThreshold)

Disjoint(a, b) ==
  \/ a[1] + a[3] <= b[1]
  \/ b[1] + b[3] <= a[1]
  \/ a[2] + a[4] <= b[2]
  \/ b[2] + b[4] <= a[2]

\* C20: iou(a, b) = iou(b, a); it is 0 for boxes that are disjoint or only
\* touch; it is 0 when both areas are 0; the divisor is never 0.
C20_IouSymmetricZeroGuarded ==
  iouOut.phase = "done" =>
    LET a == iouIn[1]
        b == iouIn[2]
    IN /\ iouOut.ab.num * iouOut.ba.den = iouOut.ba.num * iouOut.ab.den
       /\ Disjoint(a, b) => iouOut.ab.num = 0
       /\ (a[3] * a[4] = 0 /\ b[3] * b[4] = 0) => iouOut.ab.num = 0
       /\ iouOut.ab.den > 0
       /\ iouOut.aa.den > 0

\* two boxes of positive area that share an edge and nothing more
C20_Witness ==
  /\ iouOut.phase = "done"
  /\ iouIn[1][3] > 0 /\ iouIn[1][4] > 0
  /\ iouIn[2][3] > 0 /\ iouIn[2][4] > 0
  /\ iouIn[1][1] + iouIn[1][3] = iouIn[2][1]
  /\ iouIn[1][2] = iouIn[2][2]
  /\ iouOut.ab.num = 0

\* the camera's frame tiled with the configured grid and overlap
CameraFrameTiled ==
  /\ tileOut.phase = "done"
  /\ tileIn = [detectW |-> CAMERA_WIDTH, detectH |-> CAMERA_HEIGHT,
               grid |-> DETECTION_TILE_GRID, overlap |-> DETECTION_TILE_OVERLAP]
\* the x-origins of the tiles laid out
TileXs == {tileOut.origins[k][1] : k \in 1..Len(tileOut.origins)}

\* C21 (as stated): for a 1280x720 frame with tileGrid 2 and overlap 0.25 the
\* tile is 731 wide, the horizontal step is 548 and the x-origins are 0, 549.
C21_TilingExample731 ==
  CameraFrameTiled =>
    /\ tileOut.tileW = 731
    /\ tileOut.stepX = 548
    /\ TileXs = {0, 549}

\* C21 (corrected): for a 1280x720 frame with tileGrid 2 and overlap 0.25 the
\* tile is ceil(1280 / 1.75) = 732 wide, the horizontal step is
\* floor(732 * 0.75) = 549 and the x-origins are 0 and min(549, 1280 - 732) = 548.
C21_TilingExample732 ==
  CameraFrameTiled =>
    /\ tileOut.tileW = 732
    /\ tileOut.stepX = 549
    /\ TileXs = {0, 548}

C21_Witness == CameraFrameTiled /\ Len(tileOut.origins) = 4

\* C22: for every frame of at least 1x1, every tileGrid of at least 2 and every
\* overlap in [0,1), each of the grid x grid tiles lies inside the frame:
\* 0 <= x, x + tileW <= W, 0 <= y, y + tileH <= H.
C22_TilesInsideFrame ==
  tileOut.phase = "done" =>
    /\ Len(tileOut.origins) = tileIn.grid * tileIn.grid
    /\ \A k \in 1..Len(tileOut.origins) :
         /\ 0 <= tileOut.origins[k][1]
         /\ tileOut.origins[k][1] + tileOut.tileW <= tileIn.detectW
         /\ 0 <= tileOut.origins[k][2]
         /\ tileOut.origins[k][2] + tileOut.tileH <= tileIn.detectH

\* the clamp acts: the last column's step-multiple overshoots the frame
C22_Witness ==
  /\ tileOut.phase = "done"
  /\ (tileIn.grid - 1) * tileOut.stepX + tileOut.tileW > tileIn.detectW
  /\ (tileIn.grid - 1) * tileOut.stepY + tileOut.tileH > tileIn.detectH
  /\ tileIn.detectW > 1

\* the boxes of a list of detections
BoxesOf(dets) == {dets[i].bbox : i \in 1..Len(dets)}
\* pred is of a target label and scores at least the confidence threshold
Wanted(pred) == pred.class = "bird" /\ pred.score >= BIRD_CONFIDENCE_THRESHOLD
\* a box moved by (dx, dy)
Shifted(bbox, dx, dy) == << bbox[1] + dx, bbox[2] + dy, bbox[3], bbox[4] >>

\* C23: a scorer box (bx, by, w, h) reported for the tile at (tx, ty) of a crop
\* whose top-left is (cx, cy) enters the pre-NMS list as
\* (bx+tx+cx, by+ty+cy, w, h); with zoom 1 the box (0,0,10,10) appears as
\* (tx, ty, 10, 10); with tileGrid 1 the returned boxes are the scorer's moved
\* by (cx, cy).
C23_RemapToFrame ==
  [][/\ (call.pc = "yield") =>
        LET tile == scans[Len(scans)]
            cx == IF frame.softwareZoom > 2
                  THEN JsRound(frame.srcWidth - JsRound(2 * frame.srcWidth, frame.softwareZoom), 2)
                  ELSE 0
            cy == IF frame.softwareZoom > 2
                  THEN JsRound(frame.srcHeight - JsRound(2 * frame.srcHeight, frame.softwareZoom), 2)
                  ELSE 0
            wanted == SelectSeq(call.predictions, Wanted)
        IN /\ call'.allDetections =
                call.allDetections \o
                [i \in 1..Len(wanted) |->
                   [wanted[i] EXCEPT !.bbox = Shifted(wanted[i].bbox, tile.sx + cx, tile.sy + cy)]]
           /\ (frame.softwareZoom = 2 /\ << 0, 0, 10, 10 >> \in BoxesOf(wanted))
                => << tile.sx, tile.sy, 10, 10 >> \in BoxesOf(call'.allDetections)
     /\ (call.pc = "scoring" /\ call'.pc = "returned") =>
        LET cx == IF frame.softwareZoom > 2
                  THEN JsRound(frame.srcWidth - JsRound(2 * frame.srcWidth, frame.softwareZoom), 2)
                  ELSE 0
            cy == IF frame.softwareZoom > 2
                  THEN JsRound(frame.srcHeight - JsRound(2 * frame.srcHeight, frame.softwareZoom), 2)
                  ELSE 0
            wanted == SelectSeq(call'.predictions, Wanted)
        IN call'.result =
             [i \in 1..Len(wanted) |->
                [wanted[i] EXCEPT !.bbox = Shifted(wanted[i].bbox, cx, cy)]]
    ]_vars

\* a box of a tile away from the crop's origin, of a crop away from the
\* frame's origin, has entered the list
C23_Witness ==
  /\ frame.tileGrid > 1
  /\ frame.softwareZoom > 2
  /\ call.pc = "scoring"
  /\ scans[Len(scans)].sx > 0
  /\ \E i \in 1..Len(call.allDetections) :
       /\ call.allDetections[i].bbox[3] = 10
       /\ call.allDetections[i].bbox[1] > cropOffsetX(frame)
       /\ cropOffsetX(frame) > 0

\* the box lies in the frame of W x H pixels
InFrame(bbox, W, H) ==
  /\ 0 <= bbox[1]
  /\ bbox[1] + bbox[3] <= W
  /\ 0 <= bbox[2]
  /\ bbox[2] + bbox[4] <= H

C25_SinglePassIsScorerFiltered ==
  [][(frame.tileGrid = 1 /\ call.pc = "scoring") =>
       /\ Len(scans) = 1
       /\ scans' = << [scans[1] EXCEPT !.st = IF call'.pc = "returned" THEN "done" ELSE "failed"] >>
       /\ frame.softwareZoom = 2 =>
            /\ scans[1] = [sx |-> 0, sy |-> 0, w |-> frame.srcWidth, h |-> frame.srcHeight,
                           st |-> "pending"]
            /\ call'.pc = "returned" => call'.result = SelectSeq(call'.predictions, Wanted)
       /\ call'.pc = "returned" =>
            /\ Len(call'.result) = Len(SelectSeq(call'.predictions, Wanted))
            /\ \A i \in 1..Len(call'.result) :
                 /\ call'.result[i].score = SelectSeq(call'.predictions, Wanted)[i].score
                 /\ call'.result[i].class = SelectSeq(call'.predictions, Wanted)[i].class
    ]_vars

\* a single pass returned two detections that NMS would have merged or
\* reordered: the lower score first, and a pass that dropped a candidate
C25_Witness ==
  /\ frame.tileGrid = 1
  /\ frame.softwareZoom = 2
  /\ call.pc = "returned"
  /\ Len(call.predictions) = 2
  /\ Len(call.result) = 2
  /\ call.result[1].score < call.result[2].score

\* C26: if the scorer fails on any tile the whole detect call fails: no
\* detection collected from earlier tiles is returned to the caller, and no
\* later tile is scanned.
C26_ScorerFailureFailsCall ==
  \A k \in 1..Len(scans) :
    scans[k].st = "failed" =>
      /\ k = Len(scans)
      /\ call.pc = "threw"
      /\ call.error = "scorer"
      /\ call.result = << >>

\* the scorer failed on a tile after earlier tiles had given detections and
\* before the last tile
C26_Witness ==
  /\ call.pc = "threw"
  /\ scans[Len(scans)].st = "failed"
  /\ call.allDetections # << >>
  /\ Len(scans) < frame.tileGrid * frame.tileGrid

\* the origin of the tile in the given row and column (from 0) of the frame's
\* crop
CellOrigin(f, row, col) ==
  LET W == cropW(f)
      H == cropH(f)
      tw == CeilDiv(W * 100, f.tileGrid * 100 - (f.tileGrid - 1) * f.tileOverlap)
      th == CeilDiv(H * 100, f.tileGrid * 100 - (f.tileGrid - 1) * f.tileOverlap)
  IN << Min(col * ((tw * (100 - f.tileOverlap)) \div 100), W - tw),
        Min(row * ((th * (100 - f.tileOverlap)) \div 100), H - th) >>

\* C28: within one detect call with tileGrid > 1 the tiles are processed
\* strictly sequentially: exactly grid x grid scorer invocations are made, in
\* row-major order, each starting only after the previous one has completed,
\* with a yield to other scheduled work between consecutive tiles.
C28_TilesSequential ==
  [][frame.tileGrid > 1 =>
       /\ \A k \in 1..Len(scans') :
            << scans'[k].sx, scans'[k].sy >>
              = CellOrigin(frame, (k - 1) \div frame.tileGrid, (k - 1) % frame.tileGrid)
       /\ \A k \in 1..(Len(scans') - 1) : scans'[k].st = "done"
       /\ Len(scans') <= frame.tileGrid * frame.tileGrid
       /\ (call'.pc = "returned" /\ call.pc # "returned") =>
            /\ Len(scans') = frame.tileGrid * frame.tileGrid
            /\ scans'[Len(scans')].st = "done"
       /\ (Len(scans) >= 1 /\ Len(scans') = Len(scans) + 1) =>
            /\ call.pc = "yield"
            /\ scans[Len(scans)].st = "done"
            /\ scans'[Len(scans')].st = "pending"
       /\ (call.pc = "scoring" /\ call'.pc # "threw") => call'.pc = "yield"
    ]_vars

\* a tiled call has returned after its four invocations
C28_Witness ==
  /\ frame.tileGrid = 2
  /\ call.pc = "returned"
  /\ Len(scans) = 4
  /\ scans[2].sx > 0
  /\ scans[3].sy > 0

\* C27: detect called before load has completed fails with the not-ready
\* error and performs no scorer invocation; after a failed load the detector
\* is still not ready and isLoading is false, so load can be attempted again.
C27_NotReadyBeforeLoad ==
  [][/\ (~model /\ call.pc \in {"none", "returned", "threw"} /\ call'.pc # "none") =>
        /\ call'.pc = "threw"
        /\ call'.error = "notready"
        /\ scans' = << >>
     /\ ~model' => scans' = << >>
     /\ \A c \in LoadCalls :
          (loads[c] # "threw" /\ loads'[c] = "threw") => (~model' /\ ~isLoading')
     /\ \A c \in LoadCalls :
          (~model /\ ~isLoading /\ loads[c] = "none" /\ loads'[c] # "none") =>
            \/ loads'[c] = "loading" /\ isLoading' /\ cocoStarted' = cocoStarted + 1
            \/ loads'[c] = "threw" /\ ~isLoading' /\ cocoStarted' = cocoStarted
    ]_vars

\* detect was refused, a load failed after it was started, and the load
\* attempted after that is in progress
C27_Witness ==
  /\ call.pc = "threw"
  /\ call.error = "notready"
  /\ \E c, d \in LoadCalls : loads[c] = "threw" /\ loads[d] = "loading"
  /\ cocoStarted = 2
  /\ ~model

\* C29: load is idempotent and completes once: across repeated or concurrent
\* load() calls the underlying model load is started at most once while a load
\* is pending or has succeeded, and load() returns immediately once the model
\* is loaded.
C29_LoadOnce ==
  [][/\ cocoStarted' # cocoStarted =>
          /\ cocoStarted' = cocoStarted + 1
          /\ ~model
          /\ \A c \in LoadCalls : loads[c] # "loading"
     /\ Cardinality({c \in LoadCalls : loads'[c] = "loading"}) <= 1
     /\ (model /\ ~model') = FALSE
     /\ \A c \in LoadCalls :
          (model /\ loads[c] = "none" /\ loads'[c] # "none") =>
             /\ loads'[c] = "returned"
             /\ cocoStarted' = cocoStarted
    ]_vars

\* one load was started and has succeeded; a call made during it is still
\* waiting for its timer, a call made after it has returned
C29_Witness ==
  /\ model
  /\ cocoStarted = 1
  /\ loads[1] = "returned"
  /\ loads[2] = "polling"
  /\ loads[3] = "returned"

C31_NoSignalWithoutTwoAlikeSamples ==
  (/\ motionOut.phase # "input"
   /\ \/ motionIn.currentFrame = NoFrame
      \/ motionIn.previousFrame = NoFrame
      \/ motionIn.currentFrame.width # motionIn.previousFrame.width
      \/ motionIn.currentFrame.height # motionIn.previousFrame.height) =>
    /\ motionOut.phase = "done"
    /\ motionOut.detected = FALSE
    /\ motionOut.changedPercent.num = 0
    /\ motionOut.changedPixels = 0

\* two samples of as many pixels but of different shape, with pixels that
\* differ, were compared
C31_Witness ==
  /\ motionOut.phase = "done"
  /\ motionIn.currentFrame.width = 2
  /\ motionIn.currentFrame.height = 1
  /\ motionIn.previousFrame.width = 1
  /\ motionIn.previousFrame.height = 2
  /\ \A i \in 1..2 :
       motionIn.currentFrame.data[i] = << 0, 0, 0 >>
         /\ motionIn.previousFrame.data[i] # << 0, 0, 0 >>

\* the pixels the loop visits in a frame of n pixels, counted from 0
C32_Sampled(n, sampleSize) ==
  {p \in 0..(n - 1) : p % Max(1, n \div sampleSize) = 0}

\* the visited pixels whose three channels differ by more than the threshold
\* on average
C32_Changed(sampleSize) ==
  {p \in C32_Sampled(Len(motionIn.currentFrame.data), sampleSize) :
     LET c == motionIn.currentFrame.data[p + 1]
         q == motionIn.previousFrame.data[p + 1]
     IN Abs(c[1] - q[1]) + Abs(c[2] - q[2]) + Abs(c[3] - q[3]) > 3 * MOTION_THRESHOLD}

\* C32: for two samples of equal dimensions, a sampled pixel counts as changed
\* exactly when the average absolute difference of its three colour channels
\* is strictly greater than the threshold, the pixels sampled are those at a
\* stride of max(1, floor(totalPixels / sampleSize)), and changed is true
\* exactly when the share of changed pixels among the sampled ones is at
\* least pixelPercent.
C32_ChangedShareDecides ==
  (/\ motionOut.phase # "input"
   /\ motionIn.currentFrame # NoFrame
   /\ motionIn.previousFrame # NoFrame
   /\ motionIn.currentFrame.width = motionIn.previousFrame.width
   /\ motionIn.currentFrame.height = motionIn.previousFrame.height) =>
    LET sampled == Cardinality(C32_Sampled(Len(motionIn.currentFrame.data), motionIn.sampleSize))
        changed == Cardinality(C32_Changed(motionIn.sampleSize))
    IN /\ motionOut.sampledPixels = sampled
       /\ motionOut.changedPixels = changed
       /\ motionOut.changedPercent = [num |-> changed * 100, den |-> sampled]
       /\ motionOut.detected <=> (changed * 100 * 10 >= motionIn.pixelPercent * sampled)

\* four pixels sampled at a stride of two: the first differs by one more than
\* the threshold, the second (not sampled) differs too, the third differs by
\* the threshold exactly, and the half that changed is the share asked for
C32_Witness ==
  /\ motionOut.phase = "done"
  /\ motionIn.sampleSize = 2
  /\ motionIn.pixelPercent = 500
  /\ motionIn.currentFrame.width = 2 /\ motionIn.currentFrame.height = 2
  /\ motionIn.previousFrame.width = 2 /\ motionIn.previousFrame.height = 2
  /\ motionIn.previousFrame.data = << <<0, 0, 0>>, <<0, 0, 0>>, <<0, 0, 0>>, <<0, 0, 0>> >>
  /\ motionIn.currentFrame.data[1] = << MOTION_THRESHOLD + 1, MOTION_THRESHOLD, MOTION_THRESHOLD >>
  /\ motionIn.currentFrame.data[2] = << MOTION_THRESHOLD + 1, MOTION_THRESHOLD, MOTION_THRESHOLD >>
  /\ motionIn.currentFrame.data[3] = << MOTION_THRESHOLD, MOTION_THRESHOLD, MOTION_THRESHOLD >>
  /\ motionOut.detected
  /\ motionOut.changedPixels = 1
  /\ motionOut.sampledPixels = 2

\* C33: an auto stop is signalled only when the object of the current session
\* has been absent for the full grace period: never sooner than
\* NO_BIRD_GRACE_PERIOD after the most recent positive cycle (and so never by
\* a timer left over from an earlier session or from finalization).
C33_AutoStopOnlyAfterGrace ==
  [][(state = "recording" /\ state' = "stopping" /\ stopReason' = "auto")
       => sinceBirdSeen = NO_BIRD_GRACE_PERIOD]_vars

\* C34: a pause is never overridden by a detection cycle already in flight:
\* when the detector answers a cycle while the state is paused, the state
\* stays paused and no capture session is started.
C34_PauseNotOverridden ==
  [][\A l \in Loops :
       (state = "paused" /\ DetectDone(l))
         => (state' = "paused" /\ nSessions' = nSessions
               /\ \A r \in Recorders : recs'[r].isRecording = recs[r].isRecording)]_vars

\* C35: whenever a MediaRecorder is recording, the state is recording or
\* stopping, never idle, detecting, cooldown or paused.
C35_RecordingMeansRecordingState ==
  (\E s \in Sessions : sessions[s].mr = "recording") => state \in {"recording", "stopping"}

\* C36: a stop signalled by the state machine reaches the pending capture, so
\* that (the device finalizing once stopped) the state never remains
\* stopping for ever: from stopping it reaches paused, cooldown or idle.
C36_StoppingEnds ==
  (state = "stopping") ~> (state \in {"paused", "cooldown", "idle"})

\* C37: the grid x grid tiles jointly cover the whole working frame: every
\* pixel of the frame lies in at least one tile.
C37_TilesCoverFrame ==
  tileOut.phase = "done" =>
    \A x \in 0..(tileIn.detectW - 1), y \in 0..(tileIn.detectH - 1) :
      \E k \in 1..Len(tileOut.origins) :
        /\ tileOut.origins[k][1] <= x /\ x < tileOut.origins[k][1] + tileOut.tileW
        /\ tileOut.origins[k][2] <= y /\ y < tileOut.origins[k][2] + tileOut.tileH

\* C38: whenever a load() call completes successfully the detector is ready;
\* in particular a call that waited on a load in progress does not return
\* normally when that load has failed.
C38_LoadedMeansReady ==
  [][\A c \in LoadCalls :
       (loads[c] # "returned" /\ loads'[c] = "returned") => model']_vars

\* C39: a recording started with indefinite=false is stopped by its own
\* duration timer only: unless stop() is called it ends no earlier than
\* `duration` after its own start, so the timer of an earlier recording never
\* stops a later one.
C39_OwnDurationTimerOnly ==
  [][\A k \in Takes :
       (/\ ~takes[k].indefinite
        /\ takes[k].mr = "recording"
        /\ takes'[k].mr = "stopping"
        /\ takes'[k].by # "stop")
         => takes[k].age >= RECORDING_DURATION]_vars

====
